---- MODULE Spec2Model ----
(***************************************************************************)
(* Model of the conjecture-rust core: the data source and its result, the  *)
(* integer minimizer, the shrinker, the main generation loop running on a  *)
(* worker thread, and the Engine facade the host thread talks to over two  *)
(* single-slot channels.                                                   *)
(*                                                                         *)
(* Indices of records, draws and groups are the 0-based indices of the     *)
(* source; At(s, i) reads the element the source writes s[i].              *)
(***************************************************************************)
EXTENDS Integers, Sequences, FiniteSets, TLC

\* ------------------------------------------------------------------ bounds

\* Largest word a random source hands out (u64::MAX in the program).
MaxWord == 203
\* Largest max_examples an Engine is built with.
MaxMaxExamples == 1
\* Most random sources the generation phase is followed through.
MaxGenerated == 12
\* Most words a host that drives the source freely draws in one execution.
MaxFreeLen == 1
\* Largest word of a random source a freely driving host draws from.
MaxFreeWord == 1
MaxFreeDraws == 1

\* Values a database holds when the Engine is made.
MaxStored == 2
\* Largest first word, and largest later word, of a random source the test
\* skip_word draws from.
MaxSkipWord == 10
MaxBit == 1
\* Largest word of a random source the test draw_three draws from.
MaxDrawWord == 2
\* Most nonzero words before the 0 of a random source of the test until_zero.
MaxListLen == 12
\* Largest start, and threshold, of a threshold criterion.
MaxThresholdStart == 100
\* Bits of the starts and masks of a mask criterion.
MaxMaskBits == 5
\* Bits of the starts of a bit-count criterion.
MaxPopBits == 7
\* Largest start of a criterion that is true on a set of values, and the
\* most values of such a set.
MaxSetStart == 12
MaxSetSize == 2
\* Largest start of a criterion that answers as it likes.
MaxAnyStart == 8

\* Sources studied on their own: words of the generator, values of its words
\* and of written words, entries of sizes (failed draws included), draws.
MaxDataLen == 1
MaxDataWord == 2
MaxDataSizes == 3
MaxDataDraws == 3

\* Records of compared TestResults.
MaxCmpLen == 2
MaxCmpWord == 1

\* Records that are encoded and decoded: their length, and the values a byte
\* of their words takes.
MaxCodecLen == 2
MaxCodecByte == 2
\* Number of save and delete operations on a database under study.
MaxDbOps == 3

\* ------------------------------------------------------- program constants

SMALL == 5
WORD_BITS == 64
INVALID_FACTOR == 10
BYTES_PER_WORD == 8
CHANNEL_BOUND == 1
\* The start and the mask of tests::unset_relevant_bits, the start of
\* tests::sort_bits.
UNSET_START == 4095
UNSET_MASK == 2730
SORT_START == 46791

\* ----------------------------------------------------------------- helpers

Min(a, b) == IF a <= b THEN a ELSE b

At(s, i) == s[i + 1]

SetAt(s, i, v) == [s EXCEPT ![i + 1] = v]

\* s without the positions m..n-1 (Vec::drain(m..n)); callers check the range.
Drain(s, m, n) == SubSeq(s, 1, m) \o SubSeq(s, n + 1, Len(s))

DrainOk(s, m, n) == m <= n /\ n <= Len(s)

Pow2(i) == 2 ^ i

\* Bit i of a model word; words stay below 2^30, so higher bits are clear.
Bit(x, i) == IF i >= 30 THEN 0 ELSE (x \div Pow2(i)) % 2

\* Vec<u64> comparison: lexicographic, a proper prefix is smaller.
VecLess(a, b) ==
    \E k \in 1..(Min(Len(a), Len(b)) + 1) :
        /\ \A m \in 1..(k - 1) : a[m] = b[m]
        /\ \/ k > Len(a) /\ k <= Len(b)
           \/ k <= Len(a) /\ k <= Len(b) /\ a[k] < b[k]

StartsWith(s, p) == Len(p) <= Len(s) /\ SubSeq(s, 1, Len(p)) = p

\* ------------------------------------------------------------ data.rs

Overflow == [kind |-> "Overflow", label |-> 0]
Invalid == [kind |-> "Invalid", label |-> 0]
Valid == [kind |-> "Valid", label |-> 0]
Interesting(n) == [kind |-> "Interesting", label |-> n]

\* impl Ord for TestResult: length first, then the records as vectors.
TestResultLess(a, b) ==
    \/ Len(a.record) < Len(b.record)
    \/ Len(a.record) = Len(b.record) /\ VecLess(a.record, b.record)

\* impl PartialEq for TestResult.
TestResultEq(a, b) == a.record = b.record

\* cmp with the comparison of the lengths left out.
TestResult_cmp_lex(a, b) ==
    IF VecLess(a.record, b.record) THEN "Less"
    ELSE IF VecLess(b.record, a.record) THEN "Greater"
    ELSE "Equal"

\* Ord::cmp for TestResult: the lengths compared, then (on Equal) the records.
TestResult_cmp(a, b) ==
    IF Len(a.record) < Len(b.record) THEN "Less"
    ELSE IF Len(a.record) > Len(b.record) THEN "Greater"
    ELSE IF VecLess(a.record, b.record) THEN "Less"
    ELSE IF VecLess(b.record, a.record) THEN "Greater"
    ELSE "Equal"

NoEnd == -1

DataSource_new(generator) ==
    [bitgenerator |-> generator, record |-> <<>>, sizes |-> <<>>,
     draws |-> <<>>, draw_stack |-> <<>>, written_indices |-> {}]

\* A random source carries the words its generator is going to produce.
from_random(stream) == DataSource_new([kind |-> "Random", v |-> stream])

from_vec(record) == DataSource_new([kind |-> "Recorded", v |-> record])

start_draw(s) ==
    [s EXCEPT !.draw_stack = Append(@, Len(s.draws)),
              !.draws = Append(@, [depth |-> Len(s.draw_stack),
                                   start |-> Len(s.record), end |-> NoEnd])]

stop_draw_ok(s) == s.draws # <<>> /\ s.draw_stack # <<>>

stop_draw(s) ==
    LET i == s.draw_stack[Len(s.draw_stack)] IN
    [s EXCEPT !.draw_stack = SubSeq(@, 1, Len(@) - 1),
              !.draws = SetAt(@, i, [At(@, i) EXCEPT !.end = Len(s.record)])]

\* Whether the generator has a word for position Len(record).
HasWord(s) == Len(s.record) < Len(s.bitgenerator.v)

\* write without the check of line 93.
write_unchecked(s, value) ==
    [ok |-> TRUE, val |-> 0,
     src |-> [s EXCEPT !.sizes = Append(@, 0), !.record = Append(@, value)]]

\* write: Err(FailedDraw) past the end of a recorded buffer, else the value
\* and a size of 0 are appended. written_indices is left as it is.
write(s, value) ==
    IF s.bitgenerator.kind = "Recorded" /\ ~HasWord(s)
    THEN [ok |-> FALSE, src |-> s, val |-> 0]
    ELSE [ok |-> TRUE, val |-> 0,
          src |-> [s EXCEPT !.sizes = Append(@, 0), !.record = Append(@, value)]]

\* bits without lines 115-118: the word is not masked.
Mask_none(word, n_bits) == word

Mask(word, n_bits) == IF n_bits < 30 THEN word % Pow2(n_bits) ELSE word

\* bits: the size is pushed before the generator is asked for a word. A random
\* generator always has one (hosts draw no more words than the stream models).
bits(s, n_bits) ==
    LET sized == [s EXCEPT !.sizes = Append(@, n_bits)] IN
    IF s.bitgenerator.kind = "Recorded" /\ ~HasWord(s)
    THEN [ok |-> FALSE, src |-> sized, val |-> 0]
    ELSE LET result == Mask(At(s.bitgenerator.v, Len(s.record)), n_bits) IN
         [ok |-> TRUE, val |-> result,
          src |-> [sized EXCEPT !.record = Append(@, result)]]

\* into_result without the assertion of line 141.
into_result_unchecked(s, status) == TRUE

\* The assertion of into_result: an unclosed draw needs Invalid or Overflow.
into_result_ok(s, status) ==
    (\E i \in 1..Len(s.draws) : s.draws[i].end = NoEnd)
        => status \in {Invalid, Overflow}

\* into_result without its filter: every draw is kept.
FilterDraws_all(ds) ==
    [i \in 1..Len(ds) |->
        [depth |-> ds[i].depth, start |-> ds[i].start, end |-> ds[i].end]]

RECURSIVE FilterDraws(_)
FilterDraws(ds) ==
    IF ds = <<>> THEN <<>>
    ELSE LET d == Head(ds) IN
         IF d.end # NoEnd /\ d.start < d.end
         THEN <<[depth |-> d.depth, start |-> d.start, end |-> d.end]>>
                  \o FilterDraws(Tail(ds))
         ELSE FilterDraws(Tail(ds))

into_result(s, status) ==
    [record |-> s.record, status |-> status, written_indices |-> s.written_indices,
     sizes |-> s.sizes, draws |-> FilterDraws(s.draws)]

\* ------------------------------------------------------- intminimize.rs

\* The state of one minimize_integer call between two calls of its criterion:
\* pc names the step whose candidate cand is being judged, "done" a return of
\* result, "assert" the failed assertion, "spin" the shift loop that never
\* leaves (best >> 1 == best).
MinFrame(start) ==
    [pc |-> "done", start |-> start, best |-> start, i |-> 0, j |-> 0,
     lo |-> 0, hi |-> 0, cand |-> 0, result |-> start]

MinReturn(f, r) == [f EXCEPT !.pc = "done", !.result = r]

MinProbe(f, pc, cand) == [f EXCEPT !.pc = pc, !.cand = cand]

\* Minimizer::test up to the call of the criterion: "true" and "false" are
\* answered without calling it.
Minimizer_test(f, candidate) ==
    IF candidate = f.best THEN "true"
    ELSE IF candidate > f.best THEN "false"
    ELSE "call"

\* Minimizer::test without lines 22-24: best is not updated.
Minimizer_update_forgets(f, result) == f

\* Minimizer::test after the criterion answered.
Minimizer_update(f, result) == IF result THEN [f EXCEPT !.best = f.cand] ELSE f

\* x ^ (1 << i)
FlipBit(x, i) ==
    IF i >= 30 THEN x + Pow2(30)
    ELSE IF Bit(x, i) = 1 THEN x - Pow2(i) ELSE x + Pow2(i)

\* The closure of the bit-sort step: left_mask = 1 << i, right_mask = 1 << j.
SortBits(x, i, j) ==
    IF Bit(x, i) = 0 \/ Bit(x, j) # 0 THEN x ELSE x - Pow2(i) + Pow2(j)

RECURSIVE MinBin(_, _, _)
\* while lo + 1 < hi
MinBin(f, lo, hi) ==
    IF lo + 1 < hi
    THEN LET mid == lo + ((hi - lo) \div 2)
             t == Minimizer_test(f, mid) IN
         IF t = "call" THEN [MinProbe(f, "bin", mid) EXCEPT !.lo = lo, !.hi = hi]
         ELSE IF t = "true" THEN MinBin(f, lo, mid)
         ELSE MinBin(f, mid, hi)
    ELSE MinReturn(f, f.best)

\* minimize_integer without lines 85-100: no decrement, no binary search.
MinDec_skipped(f) == MinReturn(f, f.best)

\* if !minimizer.modify(|x| x - 1)? (best > 0 here: every candidate the sort
\* step accepts has a bit set)
MinDec(f) == MinProbe(f, "dec", f.best - 1)

\* minimize_integer without lines 71-83: no bits are swapped.
MinSort_skipped(f, i, j) == MinDec(f)

\* The bit-sort loops from iteration (i, j) on: i upwards, j from i - 1 down.
\* Iterations whose candidate needs no call change nothing.
MinSort(f, i, j) ==
    LET rows == {a \in i..(WORD_BITS - 1) : Bit(f.best, a) = 1}
        calls == UNION {{<<a, b>> : b \in {c \in 0..(IF a = i THEN j ELSE a - 1) :
                             Minimizer_test(f, SortBits(f.best, a, c)) = "call"}} :
                        a \in rows}
    IN  IF calls = {} THEN MinDec(f)
        ELSE LET a == CHOOSE x \in {p[1] : p \in calls} :
                          \A y \in {p[1] : p \in calls} : x <= y
                 b == CHOOSE x \in {p[2] : p \in {q \in calls : q[1] = a}} :
                          \A y \in {p[2] : p \in {q \in calls : q[1] = a}} : x >= y
             IN [MinProbe(f, "sort", SortBits(f.best, a, b)) EXCEPT !.i = a, !.j = b]

\* assert!(minimizer.best >= SMALL)
MinAssert(f) == IF f.best >= SMALL THEN MinSort(f, 0, -1) ELSE [f EXCEPT !.pc = "assert"]

\* minimize_integer without lines 65-67: no bit is flipped.
MinFlip_skipped(f, i) == MinAssert(f)

\* for i in 0..64 { minimizer.modify(|x| x ^ (1 << i))? } from iteration i on.
MinFlip(f, i) ==
    LET calls == {k \in i..(WORD_BITS - 1) :
                      Minimizer_test(f, FlipBit(f.best, k)) = "call"} IN
    IF calls = {} THEN MinAssert(f)
    ELSE LET k == CHOOSE x \in calls : \A y \in calls : x <= y IN
         [MinProbe(f, "flip", FlipBit(f.best, k)) EXCEPT !.i = k]

\* loop { if !minimizer.modify(|x| x >> 1)? { break; } }
MinShift(f) ==
    LET t == Minimizer_test(f, f.best \div 2) IN
    IF t = "call" THEN MinProbe(f, "shift", f.best \div 2)
    ELSE IF t = "true" THEN [f EXCEPT !.pc = "spin"]
    ELSE MinFlip(f, 0)

\* for i in 0..min(start, SMALL) from iteration i on, then start <= SMALL.
MinSmall(f, i) ==
    IF i < Min(f.start, SMALL) THEN [MinProbe(f, "small", i) EXCEPT !.i = i]
    ELSE IF f.start <= SMALL THEN MinReturn(f, f.start)
    ELSE MinShift(f)

\* minimize_integer up to its first call of the criterion.
minimize_integer(start) ==
    IF start = 0 THEN MinReturn(MinFrame(start), start)
    ELSE MinSmall(MinFrame(start), 0)

\* minimize_integer from the criterion's answer to its next call.
MinAnswer(f, result) ==
    LET g == Minimizer_update(f, result) IN
    CASE f.pc = "small" -> IF result THEN MinReturn(f, f.i) ELSE MinSmall(f, f.i + 1)
      [] f.pc = "shift" -> IF result THEN MinShift(g) ELSE MinFlip(g, 0)
      [] f.pc = "flip" -> MinFlip(g, f.i + 1)
      [] f.pc = "sort" -> MinSort(g, f.i, f.j - 1)
      [] f.pc = "dec" -> IF result THEN MinBin(g, 0, g.best) ELSE MinReturn(g, g.best)
      [] f.pc = "bin" -> IF result THEN MinBin(g, f.lo, f.cand) ELSE MinBin(g, f.cand, f.hi)
      [] OTHER -> f

MinWaiting(f) == f.pc \in {"small", "shift", "flip", "sort", "dec", "bin"}

\* ------------------------------------------------------- database.rs

NoDatabase == [kind |-> "NoDatabase", files |-> {}]

DirectoryDatabase(files) == [kind |-> "DirectoryDatabase", files |-> files]

\* DirectoryDatabase::path_for_entry: the file of a value is named by the
\* first 7 hex digits of the SHA-1 of the value. A name is written as the
\* first value that has it: the encodings of [12437] and [21784] share the
\* name ecd48f0, and no other two values of the model share one.
path_for_entry(value) ==
    IF value = <<0, 0, 0, 0, 0, 0, 85, 24>> THEN <<0, 0, 0, 0, 0, 0, 48, 149>>
    ELSE value

\* Database::save: File::create of the value's file, which truncates a file
\* of that name, and the value written to it (NoDatabase stores nothing).
\* files holds the contents of the files of the key's directory.
db_save(db, value) ==
    IF db.kind = "NoDatabase" THEN db
    ELSE [db EXCEPT !.files = {f \in @ : path_for_entry(f) # path_for_entry(value)}
                              \cup {value}]

\* Database::delete: remove_file of the value's file; a missing file is not
\* an error.
db_delete(db, value) ==
    IF db.kind = "NoDatabase" THEN db
    ELSE [db EXCEPT !.files = {f \in @ : path_for_entry(f) # path_for_entry(value)}]

\* Database::fetch: the stored values, as a set (the listing order is open).
db_fetch(db) == IF db.kind = "NoDatabase" THEN {} ELSE db.files

\* ------------------------------------------------ engine.rs: byte encoding

\* The bytes of a model word in little-endian order.
WordBytes_le(n) ==
    [k \in 1..BYTES_PER_WORD |->
        IF k > 4 THEN 0 ELSE (n \div Pow2(8 * (k - 1))) % 256]

\* The 8 big-endian bytes of a model word (words stay below 2^30).
WordBytes(n) ==
    [k \in 1..BYTES_PER_WORD |->
        IF k <= 4 THEN 0 ELSE (n \div Pow2(8 * (BYTES_PER_WORD - k))) % 256]

BytesWord(b) ==
    b[5] * Pow2(24) + b[6] * Pow2(16) + b[7] * Pow2(8) + b[8]

RECURSIVE u64s_to_bytes(_)
u64s_to_bytes(ints) ==
    IF ints = <<>> THEN <<>>
    ELSE WordBytes(Head(ints)) \o u64s_to_bytes(Tail(ints))

RECURSIVE bytes_to_u64s(_)
\* read_u64 fails on fewer than 8 bytes left: decoding stops there.
bytes_to_u64s(bytes) ==
    IF Len(bytes) < BYTES_PER_WORD THEN <<>>
    ELSE <<BytesWord(SubSeq(bytes, 1, BYTES_PER_WORD))>>
             \o bytes_to_u64s(SubSeq(bytes, BYTES_PER_WORD + 1, Len(bytes)))

\* ------------------------------------------- engine.rs: the worker's state

EmptyResult ==
    [record |-> <<>>, status |-> Overflow, written_indices |-> {},
     sizes |-> <<>>, draws |-> <<>>]

\* The locals of the shrink pass that is running and of the calls below it.
NoLocals ==
    [site |-> "none", crit |-> "none", i |-> 0, j |-> 0, lo |-> 0, hi |-> 0,
     target |-> EmptyResult, attempt |-> <<>>, start_length |-> 0,
     targets |-> <<>>, group |-> <<>>, max_target |-> 0, v |-> 0]

\* struct Shrinker (pass: the pass of run that is executing; log: the history
\* of the run, one entry per pass entered with the value changes had then;
\* returned: the history of the last run that returned, with a last entry
\* "return"; shrunk: for each label, the target its last run returned with).
NoShrinker ==
    [active |-> FALSE, label |-> 0, shrink_target |-> EmptyResult, changes |-> 0,
     expensive_passes_enabled |-> FALSE, prev |-> 0, pass |-> "none",
     loc |-> NoLocals, log |-> <<>>, returned |-> <<>>, shrunk |-> <<>>]

\* The locals of loop_body and of the phase functions it calls.
NoLoopBody == [phase |-> "replay", todo |-> <<>>, v |-> <<>>, keys |-> <<>>, k |-> 0]

\* struct MainGenerationLoop (the channel ends are the variables w2h, h2w).
MainGenerationLoop(max_examples, phases, db) ==
    [database |-> db, max_examples |-> max_examples, phases |-> phases,
     best_example |-> <<>>, minimized_examples |-> <<>>, fully_minimized |-> {},
     valid_examples |-> 0, invalid_examples |-> 0, interesting_examples |-> 0]

\* minimized_examples is a map label -> TestResult, kept as a function (the
\* empty map is <<>>).
MapPut(m, n, r) == [x \in DOMAIN m \cup {n} |-> IF x = n THEN r ELSE m[x]]

\* The worker between two blocking points: pc is "send" (source is to be sent
\* as RunThis), "exit" (loop_body returned Err(reason)), "panic" or "spin".
Yield(S, source, site) ==
    [S EXCEPT !.pc = "send", !.source = source, !.sh.loc.site = site]

Exit(S, reason) == [S EXCEPT !.pc = "exit", !.reason = reason]

Panic(S, msg) == [S EXCEPT !.pc = "panic", !.msg = msg]

ShrinkTarget(S) == S.sh.shrink_target

RecLen(S) == Len(S.sh.shrink_target.record)

\* --------------------------------------------------- engine.rs: Shrinker

\* The worker's code between two blocking points runs as a sequence of
\* steps: S.k names the loop head or return point the next step starts at.
Goto(S, k) == [S EXCEPT !.k = k]

\* The return of a try_delete_range, incorporate or execute call of the
\* Shrinker to the call site: succeeded, and result where the call was
\* execute.
Return(S, site, succeeded, result) ==
    [S EXCEPT !.k = "After", !.sh.loc.site = site, !.ret = succeeded, !.res = result]

\* The return of the criterion of minimize_integer.
Answer(S, result) == [S EXCEPT !.k = "min_drive", !.mi = MinAnswer(S.mi, result)]

\* Shrinker::incorporate up to its call of execute.
incorporate(S, buf, site) ==
    IF Len(buf) > RecLen(S)
    THEN Panic(S, "Expected incorporate to not increase length")
    ELSE IF Len(buf) = RecLen(S) /\ ~VecLess(buf, ShrinkTarget(S).record)
    THEN Panic(S, "assertion failed: buf < &self.shrink_target.record")
    ELSE IF StartsWith(ShrinkTarget(S).record, buf)
    THEN Return(S, site, FALSE, EmptyResult)
    ELSE Yield(S, from_vec(buf), site)

\* A closure that accepts an Interesting result of any label.
_predicate_any_label(sh, result) == result.status.kind = "Interesting"

\* The closure handed to Shrinker::new in loop_body.
_predicate(sh, result) == result.status = Interesting(sh.label)

\* Shrinker::predicate: the Shrinker after judging result.
predicate(sh, result) ==
    IF /\ _predicate(sh, result)
       /\ \/ Len(result.record) < Len(sh.shrink_target.record)
          \/ /\ Len(result.record) = Len(sh.shrink_target.record)
             /\ VecLess(result.record, sh.shrink_target.record)
    THEN [sh EXCEPT !.changes = @ + 1, !.shrink_target = result]
    ELSE sh

RECURSIVE PickDraws(_, _, _, _)
\* The scan of try_delete_range: the draws picked, or <<<<-1, -1>>>> when the
\* assertion m < n fails.
PickDraws(draws, j, k, stack) ==
    IF j < Len(draws) /\ Len(stack) < k
    THEN LET m == At(draws, j).start
             n == At(draws, j).end IN
         IF ~(m < n) THEN <<<<-1, -1>>>>
         ELSE IF stack = <<>> \/ stack[Len(stack)][2] <= m
         THEN PickDraws(draws, j + 1, k, Append(stack, <<m, n>>))
         ELSE PickDraws(draws, j + 1, k, stack)
    ELSE stack

RECURSIVE DrainStack(_, _)
\* The picked ranges drained from the last one to the first; <<-1>> when a
\* range does not lie in the vector.
DrainStack(attempt, stack) ==
    IF stack = <<>> THEN attempt
    ELSE LET top == stack[Len(stack)] IN
         IF ~DrainOk(attempt, top[1], top[2]) THEN <<-1>>
         ELSE DrainStack(Drain(attempt, top[1], top[2]), SubSeq(stack, 1, Len(stack) - 1))

try_delete_range(S, target, i, k, site) ==
    LET stack == PickDraws(target.draws, i, k, <<>>) IN
    IF stack = <<<<-1, -1>>>> THEN Panic(S, "assertion failed: m < n")
    ELSE LET attempt == DrainStack(target.record, stack) IN
         IF attempt = <<-1>> THEN Panic(S, "drain out of range")
         ELSE IF Len(attempt) >= RecLen(S) THEN Return(S, site, FALSE, EmptyResult)
         ELSE incorporate(S, attempt, site)

\* The entry of a pass of Shrinker::run, with its locals.
Enter(S, pass, loc) ==
    [S EXCEPT !.k = pass, !.sh.pass = pass, !.sh.loc = loc,
              !.sh.log = Append(@, [pass |-> pass, changes |-> S.sh.changes])]

\* adaptive_delete: the first two lines.
adaptive_delete(S) ==
    Goto(Enter(S, "adaptive_delete", [NoLocals EXCEPT !.target = ShrinkTarget(S)]),
         "adaptive_delete_loop")

\* adaptive_delete: the while loop from its head, at draw index loc.i.
adaptive_delete_loop(S) ==
    IF S.sh.loc.i < Len(S.sh.loc.target.draws)
    THEN try_delete_range(S, S.sh.loc.target, S.sh.loc.i, 2, "ad_2")
    ELSE Enter(S, "minimize_individual_blocks", NoLocals)

\* The binary search of adaptive_delete from its loop head.
adaptive_delete_search(S) ==
    IF S.sh.loc.lo + 1 < S.sh.loc.hi
    THEN try_delete_range(S, S.sh.loc.target, S.sh.loc.i,
                          S.sh.loc.lo + ((S.sh.loc.hi - S.sh.loc.lo) \div 2), "ad_mid")
    ELSE Goto([S EXCEPT !.sh.loc.i = @ + 1], "adaptive_delete_loop")

\* try_lowering_value up to its call of execute.
try_lowering_value(S, i, v) ==
    IF i >= RecLen(S) THEN Panic(S, "index out of bounds")
    ELSE IF v >= At(ShrinkTarget(S).record, i) THEN Answer(S, FALSE)
    ELSE LET attempt == SetAt(ShrinkTarget(S).record, i, v) IN
         Yield([S EXCEPT !.sh.loc.attempt = attempt], from_vec(attempt), "tlv_execute")

\* try_lowering_value from the return of its execute.
try_lowering_value_executed(S, succeeded, result) ==
    IF Len(result.record) > RecLen(S)
    THEN Panic(S, "assertion failed: result.record.len() <= self.shrink_target.record.len()")
    ELSE LET lost_bytes == RecLen(S) - Len(result.record)
             i == S.sh.loc.i
             attempt == S.sh.loc.attempt IN
         IF ~succeeded /\ result.status = Valid /\ lost_bytes > 0
         THEN IF ~DrainOk(attempt, i + 1, i + lost_bytes + 1)
              THEN Panic(S, "drain out of range")
              ELSE IF Len(Drain(attempt, i + 1, i + lost_bytes + 1)) + lost_bytes # RecLen(S)
              THEN Panic(S, "assertion failed: attempt.len() + lost_bytes")
              ELSE incorporate(S, Drain(attempt, i + 1, i + lost_bytes + 1), "tlv_incorporate")
         ELSE Answer(S, succeeded)

\* The closure minimize_duplicated_blocks hands to minimize_integer.
duplicated_criterion(S, t) ==
    IF S.sh.loc.max_target >= RecLen(S) THEN Answer(S, FALSE)
    ELSE incorporate(S,
             [p \in 1..RecLen(S) |->
                 IF \E q \in 1..Len(S.sh.loc.group) : S.sh.loc.group[q] = p - 1
                 THEN t ELSE ShrinkTarget(S).record[p]],
             "dup_incorporate")

RECURSIVE SortedSeq(_)
\* The elements of a set of numbers in ascending order.
SortedSeq(set) ==
    IF set = {} THEN <<>>
    ELSE LET m == CHOOSE x \in set : \A y \in set : x <= y IN
         <<m>> \o SortedSeq(set \ {m})

SetMin(set) == CHOOSE x \in set : \A y \in set : x <= y

SetMax(set) == CHOOSE x \in set : \A y \in set : x >= y

RECURSIVE OrderGroups(_, _)
\* Groups by descending size; the order among groups of one size is the
\* HashMap's, taken here from the input flip (ascending or descending index).
OrderGroups(groups, flip) ==
    IF groups = {} THEN <<>>
    ELSE LET big == {g \in groups : \A h \in groups : Cardinality(h) <= Cardinality(g)}
             g == CHOOSE x \in big :
                      \A y \in big : IF flip THEN SetMin(y) <= SetMin(x)
                                     ELSE SetMin(x) <= SetMin(y) IN
         <<SortedSeq(g)>> \o OrderGroups(groups \ {g}, flip)

\* The assertion at the head of calc_duplicates.
calc_duplicates_ok(t) == Len(t.record) = Len(t.sizes)

calc_duplicates(t, flip) ==
    LET idx == {i \in 0..(Len(t.record) - 1) : i \notin t.written_indices}
        key(i) == <<At(t.record, i), At(t.sizes, i)>>
        groups == {{j \in idx : key(j) = key(i)} : i \in idx} IN
    OrderGroups({g \in groups : Cardinality(g) > 1}, flip)

\* The while loop of minimize_individual_blocks from its head, at index
\* loc.i; after it the first two lines of minimize_duplicated_blocks.
minimize_individual_blocks(S) ==
    IF S.sh.loc.i < RecLen(S)
    THEN IF S.sh.loc.i \notin ShrinkTarget(S).written_indices
         THEN Goto([S EXCEPT !.sh.loc.crit = "try_lowering_value",
                             !.mi = minimize_integer(At(ShrinkTarget(S).record, S.sh.loc.i))],
                   "min_drive")
         ELSE Goto([S EXCEPT !.sh.loc.i = @ + 1], "minimize_individual_blocks")
    ELSE IF ~calc_duplicates_ok(ShrinkTarget(S))
    THEN Panic(S, "assertion failed: record.len() == sizes.len()")
    ELSE Enter(S, "minimize_duplicated_blocks",
               [NoLocals EXCEPT !.targets =
                    calc_duplicates(ShrinkTarget(S), S.nd.flip_groups)])

\* minimize_duplicated_blocks followed by a run without lines 259-264: the
\* expensive passes run in every round.
minimize_duplicated_blocks_then_all(S) ==
    IF S.sh.loc.i < Len(S.sh.loc.targets)
    THEN LET target == At(S.sh.loc.targets, S.sh.loc.i) IN
         IF target = <<>> THEN Panic(S, "called unwrap on a None value")
         ELSE IF target[1] >= RecLen(S) THEN Panic(S, "index out of bounds")
         ELSE LET v == At(ShrinkTarget(S).record, target[1]) IN
              Goto([S EXCEPT !.sh.loc.group = target,
                             !.sh.loc.max_target = SetMax({target[q] : q \in 1..Len(target)}),
                             !.sh.loc.targets = SetAt(@, S.sh.loc.i, <<>>),
                             !.sh.loc.i = @ + 1,
                             !.sh.loc.v = v,
                             !.sh.loc.crit = "duplicated",
                             !.mi = minimize_integer(v)],
                   "min_drive")
    ELSE Enter([S EXCEPT !.sh.expensive_passes_enabled = TRUE],
               "reorder_blocks", NoLocals)

\* The while loop of minimize_duplicated_blocks from its head, and the lines
\* of run that follow the pass.
minimize_duplicated_blocks(S) ==
    IF S.sh.loc.i < Len(S.sh.loc.targets)
    THEN LET target == At(S.sh.loc.targets, S.sh.loc.i) IN
         IF target = <<>> THEN Panic(S, "called unwrap on a None value")
         ELSE IF target[1] >= RecLen(S) THEN Panic(S, "index out of bounds")
         ELSE LET v == At(ShrinkTarget(S).record, target[1]) IN
              Goto([S EXCEPT !.sh.loc.group = target,
                             !.sh.loc.max_target = SetMax({target[q] : q \in 1..Len(target)}),
                             !.sh.loc.targets = SetAt(@, S.sh.loc.i, <<>>),
                             !.sh.loc.i = @ + 1,
                             !.sh.loc.v = v,
                             !.sh.loc.crit = "duplicated",
                             !.mi = minimize_integer(v)],
                   "min_drive")
    ELSE LET enabled == S.sh.expensive_passes_enabled \/ S.sh.prev = S.sh.changes IN
         IF ~enabled THEN Goto([S EXCEPT !.sh.loc = NoLocals], "run_loop")
         ELSE Enter([S EXCEPT !.sh.expensive_passes_enabled = TRUE],
                    "reorder_blocks", NoLocals)

\* minimize_integer between two calls of its criterion, and its return to the
\* pass that called it.
min_drive(S) ==
    IF S.mi.pc = "assert" THEN Panic(S, "assertion failed: minimizer.best >= SMALL")
    ELSE IF S.mi.pc = "spin" THEN [S EXCEPT !.pc = "spin"]
    ELSE IF S.mi.pc = "done"
    THEN IF S.sh.loc.crit = "try_lowering_value"
         THEN Goto([S EXCEPT !.sh.loc.i = @ + 1, !.mi = MinFrame(0)],
                   "minimize_individual_blocks")
         ELSE IF S.mi.result = S.sh.loc.v
         THEN Goto([S EXCEPT !.mi = MinFrame(0)], "minimize_duplicated_blocks")
         ELSE IF ~calc_duplicates_ok(ShrinkTarget(S))
         THEN Panic(S, "assertion failed: record.len() == sizes.len()")
         ELSE Goto([S EXCEPT !.mi = MinFrame(0),
                             !.sh.loc.targets =
                                 calc_duplicates(ShrinkTarget(S), S.nd.flip_groups)],
                   "minimize_duplicated_blocks")
    ELSE IF S.sh.loc.crit = "try_lowering_value"
    THEN try_lowering_value(S, S.sh.loc.i, S.mi.cand)
    ELSE duplicated_criterion(S, S.mi.cand)

\* The inner while loop of reorder_blocks from its head, at (loc.i, loc.j).
reorder_blocks_inner(S) ==
    LET i == S.sh.loc.i
        j == S.sh.loc.j
        record == ShrinkTarget(S).record IN
    IF j < RecLen(S)
    THEN IF ~(i < RecLen(S)) THEN Panic(S, "assertion failed: i < len")
         ELSE IF At(record, i) = 0
         THEN Goto([S EXCEPT !.sh.loc.i = @ + 1], "reorder_blocks")
         ELSE IF At(record, j) < At(record, i)
         THEN incorporate(S, SetAt(SetAt(record, i, At(record, j)), j, At(record, i)), "reorder")
         ELSE Goto([S EXCEPT !.sh.loc.j = @ + 1], "reorder_blocks_inner")
    ELSE Goto([S EXCEPT !.sh.loc.i = @ + 1], "reorder_blocks")

\* reorder_blocks left out of run: the pass swaps nothing.
reorder_blocks_skipped(S) == Enter(S, "lower_and_delete", NoLocals)

\* The outer while loop of reorder_blocks from its head.
reorder_blocks(S) ==
    IF S.sh.loc.i < RecLen(S)
    THEN Goto([S EXCEPT !.sh.loc.j = S.sh.loc.i + 1], "reorder_blocks_inner")
    ELSE Enter(S, "lower_and_delete", NoLocals)

\* The while loop over the draws in lower_and_delete from its head, at loc.j.
lower_and_delete_draws(S) ==
    LET j == S.sh.loc.j IN
    IF j < Len(ShrinkTarget(S).draws)
    THEN LET d == At(ShrinkTarget(S).draws, j) IN
         IF d.start > S.sh.loc.i
         THEN IF ~DrainOk(S.sh.loc.attempt, d.start, d.end)
              THEN Panic(S, "drain out of range")
              ELSE incorporate(S, Drain(S.sh.loc.attempt, d.start, d.end), "ld_incorporate")
         ELSE Goto([S EXCEPT !.sh.loc.j = @ + 1], "lower_and_delete_draws")
    ELSE Goto([S EXCEPT !.sh.loc.i = @ + 1], "lower_and_delete")

\* The outer while loop of lower_and_delete from its head, at index loc.i.
lower_and_delete(S) ==
    LET i == S.sh.loc.i IN
    IF i < RecLen(S)
    THEN IF At(ShrinkTarget(S).record, i) > 0
         THEN LET attempt == SetAt(ShrinkTarget(S).record, i, At(ShrinkTarget(S).record, i) - 1) IN
              Yield([S EXCEPT !.sh.loc.attempt = attempt], from_vec(attempt), "ld_execute")
         ELSE Goto([S EXCEPT !.sh.loc.i = @ + 1], "lower_and_delete")
    ELSE Enter(S, "delete_all_ranges", NoLocals)

\* The inner while loop of delete_all_ranges from its head, at (loc.i, loc.j).
delete_all_ranges_inner(S) ==
    LET i == S.sh.loc.i
        j == S.sh.loc.j IN
    IF j < RecLen(S)
    THEN IF ~(j > i) THEN Panic(S, "assertion failed: j > i")
         ELSE incorporate(S, Drain(ShrinkTarget(S).record, i, j), "delete_range")
    ELSE Goto([S EXCEPT !.sh.loc.i = IF S.sh.loc.start_length = RecLen(S) THEN @ + 1 ELSE @],
              "delete_all_ranges")

\* The outer while loop of delete_all_ranges from its head, then the next
\* round of run.
delete_all_ranges(S) ==
    IF S.sh.loc.i < RecLen(S)
    THEN Goto([S EXCEPT !.sh.loc.start_length = RecLen(S), !.sh.loc.j = S.sh.loc.i + 1],
              "delete_all_ranges_inner")
    ELSE Goto([S EXCEPT !.sh.loc = NoLocals], "run_loop")

\* Shrinker::run: the while loop from its head; on return loop_body goes on
\* with the next label.
run_loop(S) ==
    IF S.sh.prev # S.sh.changes
    THEN adaptive_delete([S EXCEPT !.sh.prev = S.sh.changes])
    ELSE Goto([S EXCEPT !.sh = [NoShrinker EXCEPT !.returned =
                                    Append(S.sh.log, [pass |-> "return",
                                                      changes |-> S.sh.changes]),
                                                  !.shrunk =
                                    MapPut(S.sh.shrunk, S.sh.label, ShrinkTarget(S))],
                        !.lb.k = @ + 1],
              "loop_body_for")

\* Shrinker::new and the first line of Shrinker::run (prev is changes + 1).
Shrinker_run(S, label, target) ==
    IF target.status # Interesting(label)
    THEN Panic(S, "assertion failed: predicate(&shrink_target)")
    ELSE Goto([S EXCEPT !.sh = [NoShrinker EXCEPT !.returned = S.sh.returned,
                                                  !.shrunk = S.sh.shrunk,
                                                  !.active = TRUE,
                                                  !.label = label,
                                                  !.shrink_target = target,
                                                  !.prev = 1]],
              "run_loop")

\* The caller of a try_delete_range, incorporate or execute call of the
\* Shrinker, from that call's return (succeeded, and result where the call
\* was execute) on.
After(S, site, succeeded, result) ==
    LET loc == S.sh.loc
        next == [S EXCEPT !.sh.loc.i = @ + 1]
        mid == loc.lo + ((loc.hi - loc.lo) \div 2) IN
    CASE site = "ad_2" ->
            IF succeeded THEN try_delete_range(S, loc.target, loc.i, 3, "ad_3")
            ELSE try_delete_range(S, loc.target, loc.i, 1, "ad_1")
      [] site = "ad_3" ->
            IF succeeded THEN try_delete_range(S, loc.target, loc.i, 4, "ad_4")
            ELSE Goto(next, "adaptive_delete_loop")
      [] site = "ad_4" ->
            IF succeeded
            THEN try_delete_range([S EXCEPT !.sh.loc.hi = 5], loc.target, loc.i, 5, "ad_hi")
            ELSE Goto(next, "adaptive_delete_loop")
      [] site = "ad_hi" ->
            IF succeeded
            THEN IF ~(loc.hi <= Len(loc.target.draws))
                 THEN Panic(S, "assertion failed: hi <= target.draws.len()")
                 ELSE try_delete_range([S EXCEPT !.sh.loc.hi = 2 * loc.hi],
                                       loc.target, loc.i, 2 * loc.hi, "ad_hi")
            ELSE Goto([S EXCEPT !.sh.loc.lo = 4], "adaptive_delete_search")
      [] site = "ad_mid" ->
            IF succeeded THEN Goto([S EXCEPT !.sh.loc.lo = mid], "adaptive_delete_search")
            ELSE Goto([S EXCEPT !.sh.loc.hi = mid], "adaptive_delete_search")
      [] site = "ad_1" -> Goto(next, "adaptive_delete_loop")
      [] site = "tlv_execute" -> try_lowering_value_executed(S, succeeded, result)
      [] site = "tlv_incorporate" -> Answer(S, succeeded)
      [] site = "dup_incorporate" -> Answer(S, succeeded)
      [] site = "reorder" -> Goto([S EXCEPT !.sh.loc.j = @ + 1], "reorder_blocks_inner")
      [] site = "ld_execute" ->
            IF ~succeeded /\ Len(result.record) < RecLen(S)
            THEN Goto([S EXCEPT !.sh.loc.j = 0], "lower_and_delete_draws")
            ELSE Goto(next, "lower_and_delete")
      [] site = "ld_incorporate" ->
            IF succeeded THEN Goto(next, "lower_and_delete")
            ELSE Goto([S EXCEPT !.sh.loc.j = @ + 1], "lower_and_delete_draws")
      [] site = "delete_range" ->
            IF succeeded THEN Goto(S, "delete_all_ranges_inner")
            ELSE Goto([S EXCEPT !.sh.loc.j = @ + 1], "delete_all_ranges_inner")
      [] OTHER -> Panic(S, "no such call site")

\* Shrinker::execute from the return of MainGenerationLoop::execute.
Shrinker_execute(S, result) ==
    Return([S EXCEPT !.sh = predicate(S.sh, result)], S.sh.loc.site,
           _predicate(S.sh, result), result)

\* ------------------------------------------ engine.rs: MainGenerationLoop

\* The bookkeeping without lines 188-194: an entry keeps the first result of
\* its label.
MainGenerationLoop_execute_keep_first(ml, result) ==
    LET n == result.status.label IN
    CASE result.status = Overflow -> ml
      [] result.status = Invalid -> [ml EXCEPT !.invalid_examples = @ + 1]
      [] result.status = Valid -> [ml EXCEPT !.valid_examples = @ + 1]
      [] OTHER ->
            [ml EXCEPT !.best_example = <<result>>,
                       !.minimized_examples =
                            IF n \in DOMAIN @ THEN @ ELSE MapPut(@, n, result),
                       !.interesting_examples = @ + 1,
                       !.database = db_save(@, u64s_to_bytes(result.record))]

\* The bookkeeping with the comparison of line 189 turned round: an entry is
\* replaced by a greater result.
MainGenerationLoop_execute_greater(ml, result) ==
    LET n == result.status.label
        inserted == IF n \in DOMAIN ml.minimized_examples THEN ml.minimized_examples
                    ELSE MapPut(ml.minimized_examples, n, result)
        changed == TestResultLess(inserted[n], result) IN
    CASE result.status = Overflow -> ml
      [] result.status = Invalid -> [ml EXCEPT !.invalid_examples = @ + 1]
      [] result.status = Valid -> [ml EXCEPT !.valid_examples = @ + 1]
      [] OTHER ->
            [ml EXCEPT !.best_example = <<result>>,
                       !.minimized_examples =
                            IF changed THEN MapPut(inserted, n, result) ELSE inserted,
                       !.fully_minimized = IF changed THEN @ \ {n} ELSE @,
                       !.interesting_examples = @ + 1,
                       !.database = db_save(@, u64s_to_bytes(result.record))]

\* The bookkeeping without line 192: the encoding of a replaced entry stays
\* in the database.
MainGenerationLoop_execute_keeps_blob(ml, result) ==
    LET n == result.status.label
        inserted == IF n \in DOMAIN ml.minimized_examples THEN ml.minimized_examples
                    ELSE MapPut(ml.minimized_examples, n, result)
        changed == TestResultLess(result, inserted[n]) IN
    CASE result.status = Overflow -> ml
      [] result.status = Invalid -> [ml EXCEPT !.invalid_examples = @ + 1]
      [] result.status = Valid -> [ml EXCEPT !.valid_examples = @ + 1]
      [] OTHER ->
            [ml EXCEPT !.best_example = <<result>>,
                       !.minimized_examples =
                            IF changed THEN MapPut(inserted, n, result) ELSE inserted,
                       !.fully_minimized = IF changed THEN @ \ {n} ELSE @,
                       !.interesting_examples = @ + 1,
                       !.database = db_save(@, u64s_to_bytes(result.record))]

\* The bookkeeping without lines 195-197: a label stays marked when its
\* entry is replaced.
MainGenerationLoop_execute_keeps_mark(ml, result) ==
    LET n == result.status.label
        inserted == IF n \in DOMAIN ml.minimized_examples THEN ml.minimized_examples
                    ELSE MapPut(ml.minimized_examples, n, result)
        changed == TestResultLess(result, inserted[n])
        deleted == IF changed
                   THEN db_delete(ml.database, u64s_to_bytes(inserted[n].record))
                   ELSE ml.database IN
    CASE result.status = Overflow -> ml
      [] result.status = Invalid -> [ml EXCEPT !.invalid_examples = @ + 1]
      [] result.status = Valid -> [ml EXCEPT !.valid_examples = @ + 1]
      [] OTHER ->
            [ml EXCEPT !.best_example = <<result>>,
                       !.minimized_examples =
                            IF changed THEN MapPut(inserted, n, result) ELSE inserted,
                       !.interesting_examples = @ + 1,
                       !.database = db_save(deleted, u64s_to_bytes(result.record))]

\* MainGenerationLoop::execute from the receipt of the result: the
\* bookkeeping of lines 174-201.
MainGenerationLoop_execute(ml, result) ==
    LET n == result.status.label
        inserted == IF n \in DOMAIN ml.minimized_examples THEN ml.minimized_examples
                    ELSE MapPut(ml.minimized_examples, n, result)
        changed == TestResultLess(result, inserted[n])
        deleted == IF changed
                   THEN db_delete(ml.database, u64s_to_bytes(inserted[n].record))
                   ELSE ml.database IN
    CASE result.status = Overflow -> ml
      [] result.status = Invalid -> [ml EXCEPT !.invalid_examples = @ + 1]
      [] result.status = Valid -> [ml EXCEPT !.valid_examples = @ + 1]
      [] OTHER ->
            [ml EXCEPT !.best_example = <<result>>,
                       !.minimized_examples =
                            IF changed THEN MapPut(inserted, n, result) ELSE inserted,
                       !.fully_minimized = IF changed THEN @ \ {n} ELSE @,
                       !.interesting_examples = @ + 1,
                       !.database = db_save(deleted, u64s_to_bytes(result.record))]

\* The keys of minimized_examples in the HashMap's order, taken from the
\* input flip.
KeysOrder(m, flip) ==
    LET up == SortedSeq(DOMAIN m) IN
    IF flip THEN [k \in 1..Len(up) |-> up[Len(up) + 1 - k]] ELSE up

\* loop_body: the while loop of the shrink phase from its head.
loop_body_while(S) ==
    IF Cardinality(DOMAIN S.ml.minimized_examples) > Cardinality(S.ml.fully_minimized)
    THEN Goto([S EXCEPT !.lb.keys = KeysOrder(S.ml.minimized_examples, S.nd.flip_keys),
                        !.lb.k = 0],
              "loop_body_for")
    ELSE Exit([S EXCEPT !.lb.keys = <<>>, !.lb.k = 0], "Complete")

\* loop_body: the for loop over the keys from its head, at index lb.k.
loop_body_for(S) ==
    IF S.lb.k < Len(S.lb.keys)
    THEN LET label == At(S.lb.keys, S.lb.k) IN
         IF label \notin S.ml.fully_minimized
         THEN Shrinker_run([S EXCEPT !.ml.fully_minimized = @ \cup {label}],
                           label, S.ml.minimized_examples[label])
         ELSE Goto([S EXCEPT !.lb.k = @ + 1], "loop_body_for")
    ELSE Goto(S, "loop_body_while")

\* loop_body without lines 117-119: the shrink phase runs whatever the phases.
loop_body_shrink_always(S) ==
    Goto([S EXCEPT !.lb.phase = "shrink"], "loop_body_while")

\* loop_body after generate_examples.
loop_body_shrink(S) ==
    IF "Shrink" \notin S.ml.phases THEN Exit(S, "Complete")
    ELSE Goto([S EXCEPT !.lb.phase = "shrink"], "loop_body_while")

\* generate_examples with the first condition of line 154 left out.
generate_examples_ignoring_valid(S) ==
    IF S.ml.invalid_examples < INVALID_FACTOR * S.ml.max_examples
    THEN IF S.generated >= MaxGenerated THEN [S EXCEPT !.pc = "unfollowed"]
         ELSE Yield([S EXCEPT !.generated = @ + 1, !.lb.phase = "generate"],
                    from_random(S.nd.stream), "generate")
    ELSE Exit(S, "MaxExamples")

\* generate_examples: the while loop from its head. The stream of the new
\* random source is the input S.nd.stream; sources past MaxGenerated are not
\* followed.
generate_examples(S) ==
    IF /\ S.ml.valid_examples < S.ml.max_examples
       /\ S.ml.invalid_examples < INVALID_FACTOR * S.ml.max_examples
    THEN IF S.generated >= MaxGenerated THEN [S EXCEPT !.pc = "unfollowed"]
         ELSE Yield([S EXCEPT !.generated = @ + 1, !.lb.phase = "generate"],
                    from_random(S.nd.stream), "generate")
    ELSE Exit(S, "MaxExamples")

\* generate_examples from the return of its execute.
generate_examples_executed(S, result) ==
    IF result.status.kind = "Interesting" THEN Goto(S, "loop_body_shrink")
    ELSE Goto(S, "generate_examples")

\* loop_body without the condition of line 113: generate_examples always
\* follows the replay.
run_previous_examples_then_generate(S) ==
    IF S.lb.todo # <<>>
    THEN Yield([S EXCEPT !.lb.v = Head(S.lb.todo), !.lb.todo = Tail(S.lb.todo)],
               from_vec(bytes_to_u64s(Head(S.lb.todo))), "replay")
    ELSE Goto([S EXCEPT !.lb.v = <<>>], "generate_examples")

\* run_previous_examples: the for loop from its head, then loop_body.
run_previous_examples(S) ==
    IF S.lb.todo # <<>>
    THEN Yield([S EXCEPT !.lb.v = Head(S.lb.todo), !.lb.todo = Tail(S.lb.todo)],
               from_vec(bytes_to_u64s(Head(S.lb.todo))), "replay")
    ELSE IF S.ml.interesting_examples = 0
    THEN Goto([S EXCEPT !.lb.v = <<>>], "generate_examples")
    ELSE Goto([S EXCEPT !.lb.v = <<>>], "loop_body_shrink")

\* run_previous_examples without lines 98-105: nothing is deleted.
run_previous_examples_keeping(S, result) == Goto(S, "run_previous_examples")

\* run_previous_examples without lines 97-100: every replayed value is
\* deleted.
run_previous_examples_deleting(S, result) ==
    Goto([S EXCEPT !.ml.database = db_delete(@, S.lb.v)], "run_previous_examples")

\* run_previous_examples from the return of its execute.
run_previous_examples_executed(S, result) ==
    LET should_delete == IF result.status.kind = "Interesting"
                         THEN u64s_to_bytes(result.record) # S.lb.v
                         ELSE TRUE IN
    Goto(IF should_delete THEN [S EXCEPT !.ml.database = db_delete(@, S.lb.v)] ELSE S,
         "run_previous_examples")

\* One step of the worker's code from the point S.k.
Step(S) ==
    CASE S.k = "After" -> After(S, S.sh.loc.site, S.ret, S.res)
      [] S.k = "min_drive" -> min_drive(S)
      [] S.k = "run_loop" -> run_loop(S)
      [] S.k = "adaptive_delete_loop" -> adaptive_delete_loop(S)
      [] S.k = "adaptive_delete_search" -> adaptive_delete_search(S)
      [] S.k = "minimize_individual_blocks" -> minimize_individual_blocks(S)
      [] S.k = "minimize_duplicated_blocks" -> minimize_duplicated_blocks(S)
      [] S.k = "reorder_blocks" -> reorder_blocks(S)
      [] S.k = "reorder_blocks_inner" -> reorder_blocks_inner(S)
      [] S.k = "lower_and_delete" -> lower_and_delete(S)
      [] S.k = "lower_and_delete_draws" -> lower_and_delete_draws(S)
      [] S.k = "delete_all_ranges" -> delete_all_ranges(S)
      [] S.k = "delete_all_ranges_inner" -> delete_all_ranges_inner(S)
      [] S.k = "loop_body_for" -> loop_body_for(S)
      [] S.k = "loop_body_while" -> loop_body_while(S)
      [] S.k = "loop_body_shrink" -> loop_body_shrink(S)
      [] S.k = "generate_examples" -> generate_examples(S)
      [] S.k = "run_previous_examples" -> run_previous_examples(S)
      [] OTHER -> Panic(S, "no such point")

RECURSIVE Run(_)
\* The worker runs until it blocks in execute, returns from loop_body or
\* panics.
Run(S) == IF S.pc # "run" THEN S ELSE Run(Step(S))

\* loop_body from its first line; todo is the listing fetch returned.
loop_body(S, todo) ==
    Run([S EXCEPT !.pc = "run", !.k = "run_previous_examples", !.lb.todo = todo])

\* The worker from the receipt of result, the answer to the RunThis it sent,
\* to its next blocking point.
Resume(S, result) ==
    LET R == [S EXCEPT !.pc = "run", !.ml = MainGenerationLoop_execute(S.ml, result)] IN
    Run(CASE S.lb.phase = "replay" -> run_previous_examples_executed(R, result)
          [] S.lb.phase = "generate" -> generate_examples_executed(R, result)
          [] OTHER -> Shrinker_execute(R, result))

\* ------------------------------------------------------------ test functions

\* tests::minimizes_all_examples: n = bits(64); Interesting(n % 2) from 100 on.
even_odd(src) ==
    LET n == bits(src, 64) IN
    IF ~n.ok THEN [src |-> n.src, status |-> Overflow]
    ELSE IF n.val >= 100 THEN [src |-> n.src, status |-> Interesting(n.val % 2)]
    ELSE [src |-> n.src, status |-> Valid]

\* A deterministic test that reads one or two words after its first word a:
\* from 6 on it skips a word, and below 5 a wrong second word is Invalid.
skip_word(src) ==
    LET a == bits(src, 64)
        b == bits(a.src, 64)
        c == bits(b.src, 64) IN
    IF ~a.ok THEN [src |-> a.src, status |-> Overflow]
    ELSE IF ~b.ok THEN [src |-> b.src, status |-> Overflow]
    ELSE IF a.val >= 6
    THEN IF ~c.ok THEN [src |-> c.src, status |-> Overflow]
         ELSE IF c.val = 1 THEN [src |-> c.src, status |-> Interesting(0)]
         ELSE [src |-> c.src, status |-> Valid]
    ELSE IF b.val = 1 THEN [src |-> b.src, status |-> Interesting(0)]
    ELSE IF a.val = 5 THEN [src |-> b.src, status |-> Valid]
    ELSE [src |-> b.src, status |-> Invalid]

\* The test of the scenario "delete unused draws": it starts a draw, consumes
\* three words, stops the draw and reports Interesting(0) iff one of the
\* words is at least 1.
draw_three(src) ==
    LET a == bits(start_draw(src), 64)
        b == bits(a.src, 64)
        c == bits(b.src, 64) IN
    IF ~a.ok THEN [src |-> a.src, status |-> Overflow]
    ELSE IF ~b.ok THEN [src |-> b.src, status |-> Overflow]
    ELSE IF ~c.ok THEN [src |-> c.src, status |-> Overflow]
    ELSE IF a.val >= 1 \/ b.val >= 1 \/ c.val >= 1
    THEN [src |-> stop_draw(c.src), status |-> Interesting(0)]
    ELSE [src |-> stop_draw(c.src), status |-> Valid]

\* A deterministic test that draws a word a and then writes the word 1
\* twice; Interesting(0) iff a is at least 1.
write_twice(src) ==
    LET a == bits(src, 64)
        b == write(a.src, 1)
        c == write(b.src, 1) IN
    IF ~a.ok THEN [src |-> a.src, status |-> Overflow]
    ELSE IF ~b.ok THEN [src |-> b.src, status |-> Overflow]
    ELSE IF ~c.ok THEN [src |-> c.src, status |-> Overflow]
    ELSE IF a.val >= 1 THEN [src |-> c.src, status |-> Interesting(0)]
    ELSE [src |-> c.src, status |-> Valid]

\* A deterministic test like skip_word whose first word, below 6, must be 4
\* or 5: from 6 on it skips a word, at 4 and 5 the second word decides, and
\* below 4 the result is Invalid.
skip_four(src) ==
    LET a == bits(src, 64)
        b == bits(a.src, 64)
        c == bits(b.src, 64) IN
    IF ~a.ok THEN [src |-> a.src, status |-> Overflow]
    ELSE IF ~b.ok THEN [src |-> b.src, status |-> Overflow]
    ELSE IF a.val >= 6
    THEN IF ~c.ok THEN [src |-> c.src, status |-> Overflow]
         ELSE IF c.val = 1 THEN [src |-> c.src, status |-> Interesting(0)]
         ELSE [src |-> c.src, status |-> Valid]
    ELSE IF a.val >= 4 /\ b.val = 1 THEN [src |-> b.src, status |-> Interesting(0)]
    ELSE IF a.val = 5 THEN [src |-> b.src, status |-> Valid]
    ELSE [src |-> b.src, status |-> Invalid]

RECURSIVE until_zero(_)
\* A deterministic test that reads words up to the first 0, every second one
\* of them inside a draw of its own, and reports Interesting(0).
until_zero(src) ==
    LET a == bits(src, 64)
        b == bits(start_draw(a.src), 64) IN
    IF ~a.ok THEN [src |-> a.src, status |-> Overflow]
    ELSE IF a.val = 0 THEN [src |-> a.src, status |-> Interesting(0)]
    ELSE IF ~b.ok THEN [src |-> b.src, status |-> Overflow]
    ELSE IF b.val = 0 THEN [src |-> stop_draw(b.src), status |-> Interesting(0)]
    ELSE until_zero(stop_draw(b.src))

\* The test function f of run_to_results, which reports Overflow for a failed
\* draw.
TestFn(name, src) ==
    CASE name = "even_odd" -> even_odd(src)
      [] name = "draw_three" -> draw_three(src)
      [] name = "write_twice" -> write_twice(src)
      [] name = "until_zero" -> until_zero(src)
      [] name = "skip_four" -> skip_four(src)
      [] OTHER -> skip_word(src)

Tests == {"even_odd", "skip_word", "draw_three", "write_twice", "until_zero",
          "skip_four"}

\* The words the generator of a new random source produces while the test
\* runs, for each test.
Streams(name) ==
    CASE name = "even_odd" -> {<<w>> : w \in 0..MaxWord}
      [] name \in {"skip_word", "skip_four"} ->
            {<<a, b, c>> : a \in 0..MaxSkipWord, b \in 0..MaxBit, c \in 0..MaxBit}
      [] name = "draw_three" -> [1..3 -> 0..MaxDrawWord]
      [] name = "write_twice" -> {<<a>> : a \in 0..MaxBit}
      [] name = "until_zero" ->
            {[p \in 1..(n + 1) |-> IF p <= n THEN 1 ELSE 0] : n \in 0..MaxListLen}
      [] OTHER -> [1..MaxFreeLen -> 0..MaxFreeWord]

\* ------------------------------------------------------------------- state

VARIABLES
    ml,         \* the worker's MainGenerationLoop
    lb,         \* the locals of loop_body and its phase functions
    sh,         \* the Shrinker of the running Shrinker::run
    mi,         \* the running minimize_integer call
    wpc,        \* where the worker thread is
    wsource,    \* the source execute is about to send
    wreason,    \* the LoopExitReason loop_body returned
    wmsg,       \* the message of the worker's panic
    generated,  \* random sources issued by generate_examples
    w2h,        \* channel worker -> host: LoopCommand values
    h2w,        \* channel host -> worker: TestResult values
    engine,     \* the host's Engine: loop_response, state, handle
    hpc,        \* where the host thread is
    hsource,    \* the DataSource the host holds
    returned,   \* what the last next_source call returned
    test,       \* the test function the host runs
    seq,        \* number (mod 4) of the last RunThis sent
    hseq,       \* number of the RunThis the host's source came with
    outstanding,\* RunThis sent whose Result the worker has not received
    call        \* the call of a pure function under study (NoCall in an Engine run)

vars == <<ml, lb, sh, mi, wpc, wsource, wreason, wmsg, generated, w2h, h2w,
          engine, hpc, hsource, returned, test, seq, hseq, outstanding, call>>

workerVars == <<ml, lb, sh, mi, wpc, wsource, wreason, wmsg, generated>>

hostVars == <<engine, hpc, hsource, returned, hseq>>

NoSource == DataSource_new([kind |-> "None", v |-> <<>>])

\* LoopCommand::RunThis and LoopCommand::Finished.
RunThis(source, id) ==
    [kind |-> "RunThis", source |-> source, id |-> id, reason |-> "", final |-> <<>>]

Finished(reason, main_loop) ==
    [kind |-> "Finished", source |-> NoSource, id |-> 0, reason |-> reason,
     final |-> <<main_loop>>]

\* The Engine was dropped (by the host, or by the unwinding of its panic):
\* its Receiver<LoopCommand> and SyncSender<TestResult> are gone.
HostGone == hpc \in {"dropped", "panicked"}

\* The worker thread ended without handing its channel ends to the host.
WorkerGone == wpc \in {"stopped", "panic"}

\* The worker's state as the record the step functions work on; nd holds the
\* inputs of the step.
WorkerState(nd) ==
    [ml |-> ml, lb |-> lb, sh |-> sh, mi |-> mi, pc |-> wpc, source |-> wsource,
     reason |-> wreason, msg |-> wmsg, generated |-> generated, nd |-> nd,
     k |-> "none", ret |-> FALSE, res |-> EmptyResult]

SetWorker(S) ==
    /\ ml' = S.ml
    /\ lb' = S.lb
    /\ sh' = S.sh
    /\ mi' = S.mi
    /\ wpc' = S.pc
    /\ wsource' = S.source
    /\ wreason' = S.reason
    /\ wmsg' = S.msg
    /\ generated' = S.generated

\* The inputs a worker step can depend on: the stream of a new random source
\* (outside the shrink phase) and the iteration orders of its HashMaps.
Inputs ==
    [stream : IF lb.phase = "shrink" THEN {<<>>} ELSE Streams(test),
     flip_groups : IF sh.active /\ Len(sh.shrink_target.record) >= 4
                   THEN BOOLEAN ELSE {FALSE},
     flip_keys : IF lb.phase = "shrink" \/ "Shrink" \in ml.phases
                 THEN BOOLEAN ELSE {FALSE}]

\* The orders in which fetch can list the stored values.
Listings(files) ==
    {l \in [1..Cardinality(files) -> files] :
        \A a, b \in 1..Cardinality(files) : l[a] = l[b] => a = b}

\* No pure function is under study.
NoCall == [fn |-> "none"]

\* Engine::new.
EngineInit(max_examples, phases, db) ==
    /\ ml = MainGenerationLoop(max_examples, phases, db)
    /\ lb = NoLoopBody
    /\ sh = NoShrinker
    /\ mi = MinFrame(0)
    /\ wpc = "start"
    /\ wsource = NoSource
    /\ wreason = ""
    /\ wmsg = ""
    /\ generated = 0
    /\ w2h = <<>>
    /\ h2w = <<>>
    /\ engine = [loop_response |-> <<>>, state |-> "ReadyToProvide", handle |-> TRUE]
    /\ hpc = "idle"
    /\ hsource = NoSource
    /\ returned = ""
    /\ seq = 0
    /\ hseq = 0
    /\ outstanding = 0
    /\ call = NoCall

Init ==
    /\ test \in Tests
    /\ \E max_examples \in 0..MaxMaxExamples, phases \in {{}, {"Shrink"}} :
           EngineInit(max_examples, phases, NoDatabase)

\* ------------------------------------------------------------ worker thread

\* The thread starts MainGenerationLoop::run: loop_body up to its first
\* execute (or to its return).
WorkerStart ==
    /\ wpc = "start"
    /\ \E nd \in Inputs, todo \in Listings(db_fetch(ml.database)) :
           SetWorker(loop_body(WorkerState(nd), todo))
    /\ UNCHANGED <<w2h, h2w, hostVars, test, call, seq, outstanding>>

\* execute: self.sender.send(LoopCommand::RunThis(source)) succeeds.
WorkerSend ==
    /\ wpc = "send"
    /\ ~HostGone
    /\ Len(w2h) < CHANNEL_BOUND
    /\ w2h' = Append(w2h, RunThis(wsource, (seq + 1) % 4))
    /\ seq' = (seq + 1) % 4
    /\ outstanding' = outstanding + 1
    /\ wpc' = "recv"
    /\ wsource' = NoSource
    /\ UNCHANGED <<ml, lb, sh, mi, wreason, wmsg, generated, h2w, hostVars, test, call>>

\* The locals of loop_body are gone once it has returned.
WorkerExit(reason) ==
    /\ wpc' = "exit"
    /\ wreason' = reason
    /\ wsource' = NoSource
    /\ lb' = NoLoopBody
    /\ sh' = NoShrinker
    /\ mi' = MinFrame(0)
    /\ UNCHANGED <<ml, wmsg, generated>>

\* execute: the send fails, the Engine's receiver is gone.
WorkerSendErr ==
    /\ wpc = "send"
    /\ HostGone
    /\ WorkerExit("Shutdown")
    /\ UNCHANGED <<w2h, h2w, hostVars, test, call, seq, outstanding>>

\* execute: self.receiver.recv() returns the result; the bookkeeping and
\* everything up to the next execute follow.
WorkerRecv ==
    /\ wpc = "recv"
    /\ h2w # <<>>
    /\ \E nd \in Inputs : SetWorker(Resume(WorkerState(nd), Head(h2w).result))
    /\ h2w' = Tail(h2w)
    /\ outstanding' = outstanding - 1
    /\ UNCHANGED <<w2h, hostVars, test, call, seq>>

\* execute: recv fails, the channel is empty and the Engine's sender is gone.
WorkerRecvErr ==
    /\ wpc = "recv"
    /\ h2w = <<>>
    /\ HostGone
    /\ WorkerExit("Shutdown")
    /\ UNCHANGED <<w2h, h2w, hostVars, test, call, seq, outstanding>>

\* MainGenerationLoop::run if the thread did not end after its send.
WorkerRun_again ==
    /\ wpc = "exit"
    /\ wreason # "Shutdown"
    /\ ~HostGone
    /\ Len(w2h) < CHANNEL_BOUND
    /\ w2h' = Append(w2h, Finished(wreason, ml))
    /\ UNCHANGED <<workerVars, h2w, hostVars, test, call, seq, outstanding>>

\* MainGenerationLoop::run after loop_body returned: silence on Shutdown,
\* else send(Finished(reason, self)).unwrap().
WorkerRun ==
    /\ wpc = "exit"
    /\ (wreason # "Shutdown" /\ ~HostGone) => Len(w2h) < CHANNEL_BOUND
    /\ IF wreason = "Shutdown"
       THEN /\ wpc' = "stopped"
            /\ UNCHANGED <<w2h, wmsg>>
       ELSE IF HostGone
       THEN /\ wpc' = "panic"
            /\ wmsg' = "called Result::unwrap() on an Err value: SendError"
            /\ UNCHANGED w2h
       ELSE /\ wpc' = "finished"
            /\ w2h' = Append(w2h, Finished(wreason, ml))
            /\ UNCHANGED wmsg
    /\ UNCHANGED <<ml, lb, sh, mi, wsource, wreason, generated, h2w, hostVars,
                   test, call, seq, outstanding>>

\* -------------------------------------------------------------- host thread

has_shutdown == engine.loop_response # <<>> /\ engine.loop_response[1].kind = "Finished"

\* A panic of the host thread unwinds it; the Engine goes with it.
HostPanic ==
    /\ hpc' = "panicked"
    /\ UNCHANGED <<engine, hsource, returned, hseq>>

\* Engine::next_source without the assertion of line 645.
next_source_unchecked ==
    /\ hpc = "idle"
    /\ engine' = [engine EXCEPT !.state = "AwaitingCompletion"]
    /\ IF engine.loop_response # <<>>
       THEN /\ returned' = "None"
            /\ UNCHANGED hpc
       ELSE /\ returned' = ""
            /\ hpc' = "await"
    /\ UNCHANGED <<hsource, hseq>>
    /\ UNCHANGED <<workerVars, w2h, h2w, test, call, seq, outstanding>>

\* Engine::next_source up to the recv of await_loop_response (a cached
\* Finished is answered at once).
next_source ==
    /\ hpc = "idle"
    /\ IF engine.state # "ReadyToProvide" THEN HostPanic
       ELSE /\ engine' = [engine EXCEPT !.state = "AwaitingCompletion"]
            /\ IF engine.loop_response # <<>>
               THEN /\ returned' = "None"
                    /\ UNCHANGED hpc
               ELSE /\ returned' = ""
                    /\ hpc' = "await"
            /\ UNCHANGED <<hsource, hseq>>
    /\ UNCHANGED <<workerVars, w2h, h2w, test, call, seq, outstanding>>

\* Engine::await_loop_response: recv returns a command, or fails because the
\* worker is gone; then the rest of next_source.
await_loop_response ==
    /\ hpc = "await"
    /\ w2h # <<>> \/ WorkerGone
    /\ IF w2h = <<>> THEN HostPanic /\ UNCHANGED w2h
       ELSE /\ w2h' = Tail(w2h)
            /\ hpc' = "idle"
            /\ IF Head(w2h).kind = "RunThis"
               THEN /\ hsource' = Head(w2h).source
                    /\ hseq' = Head(w2h).id
                    /\ returned' = "Some"
                    /\ UNCHANGED engine
               ELSE /\ engine' = [engine EXCEPT !.loop_response = <<Head(w2h)>>,
                                                !.handle = FALSE]
                    /\ returned' = "None"
                    /\ UNCHANGED <<hsource, hseq>>
    /\ UNCHANGED <<workerVars, h2w, test, call, seq, outstanding>>

\* Engine::mark_finished without line 695: the state stays
\* AwaitingCompletion.
mark_finished_keeps_state(source, status) ==
    /\ hpc = "idle"
    /\ (into_result_ok(source, status) /\ engine.state = "AwaitingCompletion"
            /\ ~has_shutdown /\ ~WorkerGone) => Len(h2w) < CHANNEL_BOUND
    /\ IF ~into_result_ok(source, status) \/ engine.state # "AwaitingCompletion"
       THEN HostPanic /\ UNCHANGED h2w
       ELSE /\ hsource' = NoSource
            /\ UNCHANGED <<engine, hpc, returned, hseq>>
            /\ IF has_shutdown \/ WorkerGone THEN UNCHANGED h2w
               ELSE h2w' = Append(h2w, [result |-> into_result(source, status), id |-> hseq])
    /\ UNCHANGED <<workerVars, w2h, test, call, seq, outstanding>>

\* Engine::mark_finished without line 704: the result is not sent.
mark_finished_silent(source, status) ==
    /\ hpc = "idle"
    /\ IF ~into_result_ok(source, status) \/ engine.state # "AwaitingCompletion"
       THEN HostPanic
       ELSE /\ engine' = [engine EXCEPT !.state = "ReadyToProvide"]
            /\ hsource' = NoSource
            /\ UNCHANGED <<hpc, returned, hseq>>
    /\ UNCHANGED <<workerVars, w2h, h2w, test, call, seq, outstanding>>

\* Engine::mark_finished(source, status) on the source the host holds:
\* into_result, then consume_test_result.
mark_finished(source, status) ==
    /\ hpc = "idle"
    /\ (into_result_ok(source, status) /\ engine.state = "AwaitingCompletion"
            /\ ~has_shutdown /\ ~WorkerGone) => Len(h2w) < CHANNEL_BOUND
    /\ IF ~into_result_ok(source, status) \/ engine.state # "AwaitingCompletion"
       THEN HostPanic /\ UNCHANGED h2w
       ELSE /\ engine' = [engine EXCEPT !.state = "ReadyToProvide"]
            /\ hsource' = NoSource
            /\ UNCHANGED <<hpc, returned, hseq>>
            /\ IF has_shutdown \/ WorkerGone THEN UNCHANGED h2w
               ELSE h2w' = Append(h2w, [result |-> into_result(source, status), id |-> hseq])
    /\ UNCHANGED <<workerVars, w2h, test, call, seq, outstanding>>

\* tests::run_to_results: the loop asks for a source until there is none.
HarnessNextSource ==
    /\ test \in Tests
    /\ returned # "None"
    /\ hsource = NoSource
    /\ next_source

\* tests::run_to_results: the body of the loop, f(&mut source) and
\* mark_finished.
HarnessRunTest ==
    /\ test \in Tests
    /\ returned = "Some"
    /\ hsource # NoSource
    /\ mark_finished(TestFn(test, hsource).src, TestFn(test, hsource).status)

\* Engine::was_unsatisfiable reading the count of Interesting results only.
was_unsatisfiable_ignoring_valid ==
    /\ has_shutdown
    /\ engine.loop_response[1].final[1].interesting_examples = 0

\* Engine::was_unsatisfiable: the counters of the MainGenerationLoop that came
\* with Finished; false while no Finished is cached.
was_unsatisfiable ==
    /\ has_shutdown
    /\ engine.loop_response[1].final[1].interesting_examples = 0
    /\ engine.loop_response[1].final[1].valid_examples = 0

\* Engine::list_minimized_examples without results.sort(): the values of the
\* final map in any order.
list_minimized_examples_unsorted ==
    IF has_shutdown
    THEN LET m == engine.loop_response[1].final[1].minimized_examples IN
         {l \in [1..Cardinality(DOMAIN m) -> {m[n] : n \in DOMAIN m}] :
             \A n \in DOMAIN m : \E k \in DOMAIN l : l[k] = m[n]}
    ELSE {<<>>}

\* Engine::list_minimized_examples: the values of the final map in ascending
\* order; among equal records the order is the HashMap's, so every sorted
\* listing is possible.
list_minimized_examples ==
    IF has_shutdown
    THEN LET m == engine.loop_response[1].final[1].minimized_examples IN
         {l \in [1..Cardinality(DOMAIN m) -> {m[n] : n \in DOMAIN m}] :
             /\ \A n \in DOMAIN m : \E k \in DOMAIN l : l[k] = m[n]
             /\ \A a, b \in DOMAIN l : a < b => ~TestResultLess(l[b], l[a])}
    ELSE {<<>>}

\* ----------------------------------------------- a host that drives freely

\* The statuses a host can report.
Statuses == {Overflow, Invalid, Valid, Interesting(0), Interesting(1)}

\* The host calls next_source, whatever the Engine's state.
HostNextSource ==
    /\ test = "free"
    /\ next_source

\* The host draws a word from the source it holds.
HostBits ==
    /\ test = "free"
    /\ hpc = "idle"
    /\ hsource # NoSource
    /\ Len(hsource.sizes) < MaxFreeLen
    /\ hsource' = bits(hsource, WORD_BITS).src
    /\ UNCHANGED <<workerVars, w2h, h2w, engine, hpc, returned, hseq, test, call, seq, outstanding>>

\* The host opens a draw on the source it holds, and does not close it.
HostStartDraw ==
    /\ test = "free"
    /\ hpc = "idle"
    /\ hsource # NoSource
    /\ Len(hsource.draws) < MaxFreeDraws
    /\ hsource' = start_draw(hsource)
    /\ UNCHANGED <<workerVars, w2h, h2w, engine, hpc, returned, hseq, test, call, seq, outstanding>>

\* The host calls mark_finished on the source it holds, with any status and
\* whatever the Engine's state.
HostMarkFinished ==
    /\ test = "free"
    /\ hsource # NoSource
    /\ \E status \in Statuses : mark_finished(hsource, status)

\* The host calls mark_finished on a source of its own making,
\* DataSource::from_vec(vec![]), while it holds none of the Engine's.
HostMarkOwn ==
    /\ test = "free"
    /\ hsource = NoSource
    /\ \E status \in Statuses : mark_finished(from_vec(<<>>), status)

\* The host drops its Engine between two calls, and the source it holds: the
\* Receiver<LoopCommand> (with what it buffers), the SyncSender<TestResult>
\* and the JoinHandle go.
HostDrop ==
    /\ test = "free"
    /\ hpc = "idle"
    /\ hpc' = "dropped"
    /\ w2h' = <<>>
    /\ hsource' = NoSource
    /\ UNCHANGED <<workerVars, h2w, engine, returned, hseq, test, call, seq, outstanding>>

InitFree ==
    /\ test = "free"
    /\ \E max_examples \in 0..MaxMaxExamples, phases \in {{}, {"Shrink"}} :
           EngineInit(max_examples, phases, NoDatabase)

\* The free host with a directory database that holds up to MaxStored
\* values: encoded records of the words the host can draw, and one value
\* with a byte after its last whole word.
InitReplay ==
    /\ test = "free"
    /\ \E max_examples \in 0..MaxMaxExamples, phases \in {{}, {"Shrink"}},
          files \in SUBSET ({u64s_to_bytes(r) :
                                r \in UNION {[1..n -> 0..MaxFreeWord] : n \in 0..MaxFreeLen}}
                            \cup {Append(u64s_to_bytes(<<MaxFreeWord>>), 0)}) :
           /\ Cardinality(files) <= MaxStored
           /\ EngineInit(max_examples, phases, DirectoryDatabase(files))

\* The tests of run_to_results with a directory database that holds encoded
\* one-word records: of the word 3, of the word 102, or of both.
InitStored ==
    /\ test \in Tests
    /\ \E max_examples \in 0..MaxMaxExamples, phases \in {{}, {"Shrink"}},
          files \in SUBSET {u64s_to_bytes(<<3>>), u64s_to_bytes(<<102>>)} :
           /\ files # {}
           /\ EngineInit(max_examples, phases, DirectoryDatabase(files))

\* ------------------------------------------------- pure functions under study

\* The variables of the Engine run, which a study of a pure function leaves
\* alone.
engineVars == <<ml, lb, sh, wpc, wsource, wreason, wmsg, generated, w2h, h2w,
                engine, hpc, returned, seq, hseq, outstanding, test>>

\* No Engine runs.
NoEngine ==
    /\ ml = MainGenerationLoop(0, {}, NoDatabase)
    /\ lb = NoLoopBody
    /\ sh = NoShrinker
    /\ wpc = "none"
    /\ wsource = NoSource
    /\ wreason = ""
    /\ wmsg = ""
    /\ generated = 0
    /\ w2h = <<>>
    /\ h2w = <<>>
    /\ engine = [loop_response |-> <<>>, state |-> "ReadyToProvide", handle |-> FALSE]
    /\ hpc = "none"
    /\ returned = ""
    /\ seq = 0
    /\ hseq = 0
    /\ outstanding = 0

\* u64::count_ones
count_ones(x) == Cardinality({i \in 0..29 : Bit(x, i) = 1})

\* k & m == m
HasBits(k, m) == \A i \in 0..29 : Bit(m, i) = 1 => Bit(k, i) = 1

\* The criteria of the tests of minimize_integer, and the criterion that is
\* true on the values of a set.
Holds(p, v) ==
    CASE p.kind = "threshold" -> v >= p.t
      [] p.kind = "mask" -> HasBits(v, p.m)
      [] p.kind = "popcount" -> count_ones(v) = p.c
      [] OTHER -> v \in p.s

\* The call minimize_integer(start, p) of tests::non_failing_minimize(x, p):
\* best is the start of the running call, calls and trues the values its
\* criterion was called on and answered true on, results the values the
\* calls so far returned, pc "run", "return" or "assert".
Minimize(x, p) ==
    [fn |-> "minimize", p |-> p, x |-> x, best |-> x, calls |-> {}, trues |-> {},
     results |-> <<>>, pc |-> "run"]

\* The starts and criteria studied: the three tests of intminimize.rs with
\* their parameters varied, criteria true on a small set of values, and a
\* criterion that answers as it likes.
MinimizeCalls ==
    {Minimize(x, [kind |-> "threshold", t |-> t]) :
        x \in 0..MaxThresholdStart, t \in 0..MaxThresholdStart}
    \cup {Minimize(y, [kind |-> "mask", m |-> m]) :
        y \in 0..(Pow2(MaxMaskBits) - 1) \cup {UNSET_START},
        m \in 0..(Pow2(MaxMaskBits) - 1) \cup {UNSET_MASK}}
    \cup {Minimize(x, [kind |-> "popcount", c |-> count_ones(x)]) :
        x \in 0..(Pow2(MaxPopBits) - 1) \cup {SORT_START}}
    \cup UNION {{Minimize(x, [kind |-> "set", s |-> s]) :
                    s \in {T \in SUBSET (0..x) : Cardinality(T) <= MaxSetSize}} :
                 x \in 0..MaxSetStart}
    \cup {Minimize(x, [kind |-> "any"]) : x \in 0..MaxAnyStart}

InitMinimize ==
    /\ NoEngine
    /\ test = "minimize"
    /\ hsource = NoSource
    /\ call \in MinimizeCalls
    /\ mi = minimize_integer(call.x)

\* minimize_integer calls its criterion on mi.cand and goes on to its next
\* call or to its return. A closure that is no function of its argument (kind
\* "any") can answer either way.
MinimizeCriterion ==
    /\ test = "minimize"
    /\ call.pc = "run"
    /\ MinWaiting(mi)
    /\ \E answer \in IF call.p.kind = "any" THEN BOOLEAN
                       ELSE {Holds(call.p, mi.cand)} :
          /\ mi' = MinAnswer(mi, answer)
          /\ call' = [call EXCEPT !.calls = @ \cup {mi.cand},
                                  !.trues = IF answer THEN @ \cup {mi.cand} ELSE @]
    /\ UNCHANGED <<engineVars, hsource>>

\* non_failing_minimize from the return of minimize_integer: the assertion,
\* the return on result == best, or the next call.
MinimizeReturn ==
    /\ test = "minimize"
    /\ call.pc = "run"
    /\ mi.pc = "done"
    /\ LET c == [call EXCEPT !.results = Append(@, mi.result)] IN
       IF mi.result > call.best
       THEN call' = [c EXCEPT !.pc = "assert"] /\ UNCHANGED mi
       ELSE IF mi.result = call.best
       THEN call' = [c EXCEPT !.pc = "return"] /\ UNCHANGED mi
       ELSE /\ call' = [c EXCEPT !.best = mi.result, !.calls = {}, !.trues = {}]
            /\ mi' = minimize_integer(mi.result)
    /\ UNCHANGED <<engineVars, hsource>>

\* The calls on a DataSource, which hsource holds while call.pc is "open":
\* failed tells whether a call returned Err(FailedDraw), writes counts the
\* successful writes, started the calls of start_draw, ret what the last call
\* of bits or write returned, results holds the TestResult of into_result. The
\* comparisons of three TestResults rs, whose statuses and draws differ:
\* cmp[i][j] and eq[i][j] are what cmp and eq returned for (rs[i], rs[j]).
\* The encoding of a record: encoded is u64s_to_bytes(record), decoded what
\* bytes_to_u64s makes of it, words what it makes of the first cut bytes.
DataCalls ==
    {[fn |-> "data", pc |-> "open", failed |-> FALSE, writes |-> 0,
      started |-> 0, ret |-> [ok |-> TRUE, val |-> 0], results |-> <<>>]}
    \cup {[fn |-> "cmp", pc |-> "open", cmp |-> <<>>, eq |-> <<>>,
           rs |-> <<[record |-> a, status |-> Valid, written_indices |-> {},
                     sizes |-> [i \in 1..Len(a) |-> WORD_BITS], draws |-> <<>>],
                    [record |-> b, status |-> Interesting(0), written_indices |-> {},
                     sizes |-> [i \in 1..Len(b) |-> WORD_BITS],
                     draws |-> IF b = <<>> THEN <<>>
                               ELSE <<[depth |-> 0, start |-> 0, end |-> Len(b)]>>],
                    [record |-> c, status |-> Overflow, written_indices |-> {},
                     sizes |-> [i \in 1..Len(c) |-> WORD_BITS], draws |-> <<>>]>>] :
           a, b, c \in UNION {[1..n -> 0..MaxCmpWord] : n \in 0..MaxCmpLen}}
    \cup {c \in {[fn |-> "codec", pc |-> "open", record |-> r, cut |-> b,
                  encoded |-> <<>>, decoded |-> <<>>, words |-> <<>>] :
                    r \in UNION {[1..n -> {a * Pow2(8 * k) : a \in 0..MaxCodecByte,
                                                             k \in 0..1}
                                           \cup {Pow2(30) - 1}] :
                                 n \in 0..MaxCodecLen},
                    b \in 0..(BYTES_PER_WORD * MaxCodecLen)} :
             c.cut <= BYTES_PER_WORD * Len(c.record)}
    \cup {[fn |-> "db", pc |-> "open", db |-> DirectoryDatabase({}), live |-> {},
           ops |-> 0]}

\* A source over a random generator or over a recorded buffer, or no source
\* and three TestResults to compare or a record to encode.
InitData ==
    /\ NoEngine
    /\ test = "data"
    /\ mi = MinFrame(0)
    /\ call \in DataCalls
    /\ IF call.fn # "data" THEN hsource = NoSource
       ELSE hsource \in
                {from_random(v) : v \in [1..MaxDataLen -> 0..MaxDataWord]}
                \cup {from_vec(v) :
                         v \in UNION {[1..n -> 0..MaxDataWord] : n \in 0..MaxDataLen}}

DataOpen == test = "data" /\ call.fn = "data" /\ call.pc = "open"

\* bits(n_bits); the random generator is asked for no more words than the
\* model gives it.
DataBits ==
    /\ DataOpen
    /\ Len(hsource.sizes) < MaxDataSizes
    /\ hsource.bitgenerator.kind = "Random" => HasWord(hsource)
    /\ \E n_bits \in {1, WORD_BITS} :
          LET r == bits(hsource, n_bits) IN
          /\ hsource' = r.src
          /\ call' = [call EXCEPT !.failed = @ \/ ~r.ok,
                                  !.ret = [ok |-> r.ok, val |-> r.val]]
    /\ UNCHANGED <<engineVars, mi>>

\* write(value)
DataWrite ==
    /\ DataOpen
    /\ Len(hsource.sizes) < MaxDataSizes
    /\ hsource.bitgenerator.kind = "Random" => Len(hsource.record) < MaxDataLen
    /\ \E value \in 0..MaxDataWord :
          LET r == write(hsource, value) IN
          /\ hsource' = r.src
          /\ call' = [call EXCEPT !.failed = @ \/ ~r.ok,
                                  !.writes = IF r.ok THEN @ + 1 ELSE @,
                                  !.ret = [ok |-> r.ok, val |-> r.val]]
    /\ UNCHANGED <<engineVars, mi>>

DataStartDraw ==
    /\ DataOpen
    /\ Len(hsource.draws) < MaxDataDraws
    /\ hsource' = start_draw(hsource)
    /\ call' = [call EXCEPT !.started = @ + 1]
    /\ UNCHANGED <<engineVars, mi>>

\* stop_draw; its assertions abort the caller.
DataStopDraw ==
    /\ DataOpen
    /\ IF stop_draw_ok(hsource)
       THEN hsource' = stop_draw(hsource) /\ UNCHANGED call
       ELSE call' = [call EXCEPT !.pc = "panic"] /\ UNCHANGED hsource
    /\ UNCHANGED <<engineVars, mi>>

\* into_result(status) consumes the source; its assertion aborts the caller.
DataIntoResult ==
    /\ DataOpen
    /\ \E status \in Statuses :
          IF into_result_ok(hsource, status)
          THEN call' = [call EXCEPT !.pc = "result",
                                   !.results = <<into_result(hsource, status)>>]
          ELSE call' = [call EXCEPT !.pc = "panic"]
    /\ hsource' = NoSource
    /\ UNCHANGED <<engineVars, mi>>

\* cmp and eq on every pair of the three TestResults.
DataCompare ==
    /\ test = "data"
    /\ call.fn = "cmp"
    /\ call.pc = "open"
    /\ call' = [call EXCEPT
                    !.pc = "done",
                    !.cmp = [i \in 1..3 |->
                                [j \in 1..3 |-> TestResult_cmp(call.rs[i], call.rs[j])]],
                    !.eq = [i \in 1..3 |->
                               [j \in 1..3 |-> TestResultEq(call.rs[i], call.rs[j])]]]
    /\ UNCHANGED <<engineVars, mi, hsource>>

\* ---------------------------------------------------------- specifications

Next ==
    \/ WorkerStart
    \/ WorkerSend
    \/ WorkerRecv
    \/ WorkerRun
    \/ HarnessNextSource
    \/ await_loop_response
    \/ HarnessRunTest

\* The engine under tests::run_to_results.
Spec == Init /\ [][Next]_vars

SpecStored == InitStored /\ [][Next]_vars

NextFree ==
    \/ WorkerStart
    \/ WorkerSend
    \/ WorkerSendErr
    \/ WorkerRecv
    \/ WorkerRecvErr
    \/ WorkerRun
    \/ HostNextSource
    \/ await_loop_response
    \/ HostBits
    \/ HostStartDraw
    \/ HostMarkFinished
    \/ HostMarkOwn
    \/ HostDrop

\* The engine under a host that calls the Engine's methods in any order,
\* reports any status and may drop the Engine.
SpecFree == InitFree /\ [][NextFree]_vars

\* The engine with stored values to replay, under the free host.
SpecReplay == InitReplay /\ [][NextFree]_vars

NextMinimize ==
    \/ MinimizeCriterion
    \/ MinimizeReturn

\* tests::non_failing_minimize on the starts and criteria of MinimizeCalls.
SpecMinimize == InitMinimize /\ [][NextMinimize]_vars

\* u64s_to_bytes on the record, bytes_to_u64s on what it returned and on its
\* first cut bytes.
DataCodec ==
    /\ test = "data"
    /\ call.fn = "codec"
    /\ call.pc = "open"
    /\ LET bytes == u64s_to_bytes(call.record) IN
       call' = [call EXCEPT !.pc = "done",
                            !.encoded = bytes,
                            !.decoded = bytes_to_u64s(bytes),
                            !.words = bytes_to_u64s(SubSeq(bytes, 1, call.cut))]
    /\ UNCHANGED <<engineVars, mi, hsource>>

\* One save or delete on a DirectoryDatabase that starts empty; live holds the
\* values saved and not deleted since.
DataDb ==
    /\ test = "data"
    /\ call.fn = "db"
    /\ call.ops < MaxDbOps
    /\ \E op \in {"save", "delete"},
          value \in {u64s_to_bytes(<<w>>) : w \in {1, 12437, 21784}} :
           call' = [call EXCEPT !.ops = @ + 1,
                                !.db = IF op = "save" THEN db_save(@, value)
                                       ELSE db_delete(@, value),
                                !.live = IF op = "save" THEN @ \cup {value}
                                         ELSE @ \ {value}]
    /\ UNCHANGED <<engineVars, mi, hsource>>

NextData ==
    \/ DataBits
    \/ DataWrite
    \/ DataStartDraw
    \/ DataStopDraw
    \/ DataIntoResult
    \/ DataCompare
    \/ DataCodec
    \/ DataDb

\* A DataSource driven call by call, and the comparison of TestResults.
SpecData == InitData /\ [][NextData]_vars

\* -------------------------------------------------------------- properties

\* The MainGenerationLoop the Finished message handed to the host.
Final == engine.loop_response[1].final[1]

\* The run of the even/odd test with the Shrink phase has ended with an
\* Interesting result found, and next_source has returned None.
EvenOddDone ==
    /\ test = "even_odd"
    /\ has_shutdown
    /\ returned = "None"
    /\ "Shrink" \in Final.phases
    /\ Final.interesting_examples > 0

\* This step sends a LoopCommand of the kind to the host.
Sent(kind) == Len(w2h') > Len(w2h) /\ w2h'[Len(w2h')].kind = kind

C2_MinimizedNeverGreater ==
    [][\A n \in DOMAIN ml.minimized_examples :
          /\ n \in DOMAIN ml'.minimized_examples
          /\ \/ ml'.minimized_examples[n] = ml.minimized_examples[n]
             \/ TestResultLess(ml'.minimized_examples[n], ml.minimized_examples[n])]_vars

\* C2, witness: the running Shrinker has accepted a smaller result for its
\* label and the entry of that label is that result.
C2_Witness ==
    /\ sh.active
    /\ sh.changes > 0
    /\ sh.label \in DOMAIN ml.minimized_examples
    /\ ml.minimized_examples[sh.label] = sh.shrink_target

\* C3: the worker never has more than one RunThis outstanding; a Result in
\* the host-to-worker channel answers the latest RunThis and finds the worker
\* waiting for it; the worker sends a RunThis or its Finished only when the
\* Result of every earlier RunThis has been received.
C3_OneResultPerRunThis ==
    [][/\ outstanding' \in {0, 1}
       /\ Len(h2w') <= 1
       /\ h2w' # <<>> => (Head(h2w').id = seq' /\ wpc' = "recv" /\ outstanding' = 1)
       /\ Sent("RunThis") => (outstanding = 0 /\ outstanding' = 1)
       /\ Sent("Finished") => outstanding = 0
       /\ outstanding' < outstanding => (h2w # <<>> /\ Head(h2w).id = seq)]_vars

\* C3, witness: the worker has sent its third RunThis after receiving the
\* Results of the first two, and the host has answered it.
C3_Witness == seq = 3 /\ outstanding = 1 /\ h2w # <<>>

\* C4: a next_source call outside ReadyToProvide and a mark_finished call
\* outside AwaitingCompletion end in a panic that leaves the Engine and both
\* channels as they were; a Result is sent only from AwaitingCompletion; the
\* return of a source leaves the Engine in AwaitingCompletion and a
\* mark_finished that returns leaves it in ReadyToProvide.
C4_TwoStateProtocol ==
    [][/\ (HostNextSource /\ engine.state # "ReadyToProvide")
            => (hpc' = "panicked" /\ UNCHANGED <<engine, h2w, w2h>>)
       /\ ((HostMarkFinished \/ HostMarkOwn) /\ engine.state # "AwaitingCompletion")
            => (hpc' = "panicked" /\ UNCHANGED <<engine, h2w, w2h>>)
       /\ Len(h2w') > Len(h2w) => engine.state = "AwaitingCompletion"
       /\ (hsource' # hsource /\ hsource = NoSource /\ returned' = "Some")
            => engine'.state = "AwaitingCompletion"
       /\ ((HostMarkFinished \/ HostMarkOwn) /\ hpc' = "idle")
            => engine'.state = "ReadyToProvide"]_vars

\* C4, witness: the host has panicked on a call made in the wrong state while
\* the worker waits for the Result of its RunThis.
C4_Witness ==
    /\ hpc = "panicked"
    /\ engine.state = "AwaitingCompletion"
    /\ hsource # NoSource
    /\ wpc = "recv"
    /\ h2w = <<>>

\* C5 as stated: once the Engine holds the Finished message, every call of
\* next_source returns None.
C5_FinishedIsSticky ==
    [][(has_shutdown /\ HostNextSource) => (returned' = "None" /\ hpc' = "idle")]_vars

\* C6: a step that sends Finished is the worker's last (it starts where
\* loop_body has returned and ends the thread), and after it the worker's
\* state never changes and nothing more is sent to the host.
C6_FinishedOnce ==
    [][/\ Sent("Finished") => (wpc = "exit" /\ wpc' = "finished")
       /\ wpc = "finished" => (UNCHANGED <<workerVars, seq>> /\ Len(w2h') <= Len(w2h))]_vars

\* C6, witness: the worker has sent Finished after an execution, the host has
\* received it and has gone on calling the Engine.
C6_Witness ==
    /\ wpc = "finished"
    /\ has_shutdown
    /\ seq > 0
    /\ engine.state = "ReadyToProvide"

\* C7 as stated: under a deterministic test the shrink phase terminates: the
\* worker never enters a loop it cannot leave. (In "spin" the worker repeats
\* the shift loop of minimize_integer with best = 0: modify(|x| x >> 1)
\* answers Ok(true) without calling the criterion, so nothing changes and
\* nothing is sent while the host waits in recv.)
C7_ShrinkTerminates == wpc # "spin"

\* C8 as stated: whatever statuses the host reports, the generation phase
\* issues fewer than 11 * max_examples random sources.
C8_GenerationBounded ==
    generated = 0 \/ generated < (INVALID_FACTOR + 1) * ml.max_examples

\* C9: a random source is issued only while valid < max_examples,
\* invalid < 10 * max_examples and nothing Interesting has been reported, and
\* none is issued afterwards; a worker that ends with no Interesting result
\* ends with MaxExamples, and one that ends with MaxExamples has run no
\* shrinking and has an empty minimized_examples.
C9_GenerationPhase ==
    [][/\ (wpc' = "send" /\ wsource'.bitgenerator.kind = "Random")
            => /\ ml'.valid_examples < ml'.max_examples
               /\ ml'.invalid_examples < INVALID_FACTOR * ml'.max_examples
               /\ ml'.interesting_examples = 0
       /\ ml.interesting_examples > 0 => generated' = generated
       /\ (wpc' \in {"exit", "finished"} /\ wreason' # "Shutdown"
                /\ ml'.interesting_examples = 0)
            => wreason' = "MaxExamples"
       /\ (wpc' \in {"exit", "finished"} /\ wreason' = "MaxExamples")
            => /\ ml'.minimized_examples = <<>>
               /\ ml'.interesting_examples = 0
               /\ lb'.phase # "shrink"
               /\ ~sh'.active]_vars

\* C9, witness: the worker has sent Finished(MaxExamples) after as many
\* Invalid results as the budget allows.
C9_Witness ==
    /\ wpc = "finished"
    /\ wreason = "MaxExamples"
    /\ ml.max_examples > 0
    /\ ml.invalid_examples = INVALID_FACTOR * ml.max_examples

\* C10 as stated: once the host has dropped its Engine the worker does not
\* panic, and when its thread ends it ends silently on Shutdown.
C10_SilentShutdown ==
    [][hpc = "dropped" =>
          /\ wpc' = "panic" => wpc = "panic"
          /\ wpc' = "stopped" => wreason' = "Shutdown"
          /\ ~Sent("Finished")]_vars

\* C11: with the host of run_to_results, which alternates next_source and
\* mark_finished, at most one message is in flight over both queues; a thread
\* about to send finds its queue empty, so no send blocks; and the two
\* threads are never both waiting: the host in the recv of next_source with
\* nothing to receive while the worker waits in the recv of execute with
\* nothing to receive, or has returned from run without a message for the
\* host. A worker that panics on a failed assertion of the Shrinker waits for
\* nothing, and the host's recv then fails instead of waiting: the host
\* leaves idle and await only by the panic that follows the worker's.
C11_NoBlockingNoDeadlock ==
    /\ Len(w2h) + Len(h2w) <= CHANNEL_BOUND
    /\ wpc = "send" => w2h = <<>>
    /\ (wpc = "exit" /\ wreason # "Shutdown") => w2h = <<>>
    /\ (hpc = "idle" /\ hsource # NoSource) => h2w = <<>>
    /\ (hpc = "await" /\ w2h = <<>>) =>
           /\ ~(wpc = "recv" /\ h2w = <<>>)
           /\ wpc \notin {"finished", "stopped"}
    /\ hpc \in {"idle", "await"} \/ (hpc = "panicked" /\ wpc = "panic")

\* C11, witness: in the third execution the host has sent its Result while
\* the worker waits in recv, and the other queue is empty.
C11_Witness ==
    /\ seq = 3
    /\ wpc = "recv"
    /\ Len(h2w) = 1
    /\ w2h = <<>>
    /\ hpc = "idle"

\* C12: the criterion of a minimize_integer call is only called on values
\* below start, and not at all when start is 0, where the call returns 0; the
\* value a call returns is at most start, it is start or a value the
\* criterion answered true on, and the criterion answered true on no smaller
\* value.
C12_MinimizeIntegerResult ==
    call.pc = "run" =>
        /\ call.calls \subseteq 0..(mi.start - 1)
        /\ mi.start = 0 => (mi.pc = "done" /\ mi.result = 0 /\ call.calls = {})
        /\ mi.pc = "done" =>
               /\ mi.result <= mi.start
               /\ mi.result = mi.start \/ mi.result \in call.trues
               /\ \A v \in call.trues : v >= mi.result

\* C12, witness: a call whose criterion answers as it likes has returned a
\* value below its start, after two true answers and false ones.
C12_Witness ==
    /\ call.pc = "run"
    /\ call.p.kind = "any"
    /\ mi.pc = "done"
    /\ mi.result < mi.start
    /\ Cardinality(call.trues) >= 2
    /\ Cardinality(call.calls \ call.trues) >= 5

\* C13 as stated: for a criterion that is a function of its argument, a
\* second call of minimize_integer, started from the value the first call
\* returned, returns that value again.
C13_Idempotent ==
    (call.p.kind # "any" /\ Len(call.results) >= 2) => call.results[2] = call.results[1]

\* The call of non_failing_minimize goes on until it returns: the running
\* minimize_integer call is at a call of its criterion or has returned, and
\* no assertion has failed.
MinimizeRuns ==
    /\ call.pc \in {"run", "return"}
    /\ call.pc = "run" => (MinWaiting(mi) \/ mi.pc = "done")

\* C14: for a criterion x >= t and a start >= t, minimize_integer applied
\* until its result stops changing comes to an end and yields t.
C14_MinimizeDownTo ==
    (call.p.kind = "threshold" /\ call.x >= call.p.t) =>
        /\ MinimizeRuns
        /\ call.pc = "return" => call.best = call.p.t

\* C14, witness: the test case, start 100 and t = 10, has returned 10.
C14_Witness ==
    /\ call.p.kind = "threshold"
    /\ call.x = 100
    /\ call.p.t = 10
    /\ call.pc = "return"
    /\ call.best = 10

\* C15: for a criterion k & m == m and a start that has the bits of m,
\* minimize_integer applied until its result stops changing comes to an end
\* and yields m.
C15_UnsetRelevantBits ==
    (call.p.kind = "mask" /\ HasBits(call.x, call.p.m)) =>
        /\ MinimizeRuns
        /\ call.pc = "return" => call.best = call.p.m

\* C15, witness: the test case, start 0b111111111111 and mask
\* 0b101010101010, has returned the mask.
C15_Witness ==
    /\ call.p.kind = "mask"
    /\ call.x = UNSET_START
    /\ call.p.m = UNSET_MASK
    /\ call.pc = "return"
    /\ call.best = UNSET_MASK

\* C16: for a start with c bits set and the criterion count_ones(k) == c,
\* minimize_integer applied until its result stops changing comes to an end
\* and yields 2^c - 1.
C16_SortBits ==
    call.p.kind = "popcount" =>
        /\ MinimizeRuns
        /\ call.pc = "return" => call.best = Pow2(call.p.c) - 1

\* C16, witness: the test case, start 0b1011011011000111 with 10 bits set,
\* has returned 0b1111111111 after more than one call of minimize_integer.
C16_Witness ==
    /\ call.p.kind = "popcount"
    /\ call.x = SORT_START
    /\ call.pc = "return"
    /\ call.best = Pow2(10) - 1
    /\ Len(call.results) > 2

\* C17: cmp on TestResults is the shortlex order of the records: Less iff the
\* record is shorter, or as long and smaller at the first position where the
\* two differ; eq iff the records are equal, whatever the statuses and draws;
\* cmp is Equal exactly when eq holds, and cmp is a total order.
C17_ShortlexOrder ==
    (call.fn = "cmp" /\ call.pc = "done") =>
        \A i, j \in 1..3 :
            LET a == call.rs[i].record
                b == call.rs[j].record
                shortlex ==
                    \/ Len(a) < Len(b)
                    \/ /\ Len(a) = Len(b)
                       /\ \E k \in 1..Len(a) :
                              a[k] < b[k] /\ \A m \in 1..(k - 1) : a[m] = b[m]
            IN /\ (call.cmp[i][j] = "Less") <=> shortlex
               /\ call.eq[i][j] <=> (a = b)
               /\ (call.cmp[i][j] = "Equal") <=> call.eq[i][j]
               /\ (call.cmp[i][j] = "Less") <=> (call.cmp[j][i] = "Greater")
               /\ \A k \in 1..3 :
                      (call.cmp[i][j] = "Less" /\ call.cmp[j][k] = "Less")
                          => call.cmp[i][k] = "Less"

\* C17, witness: two results of different status and draws compare equal, and
\* both are less than a longer record that is lexicographically smaller.
C17_Witness ==
    /\ call.fn = "cmp"
    /\ call.pc = "done"
    /\ call.rs[1].record = <<1>>
    /\ call.rs[2].record = <<1>>
    /\ call.rs[1].status # call.rs[2].status
    /\ call.rs[1].draws # call.rs[2].draws
    /\ call.rs[3].record = <<0, 0>>
    /\ call.eq[1][2]
    /\ call.cmp[2][3] = "Less"

\* C18: every TestResult that into_result produces, after any calls of bits,
\* write, start_draw and stop_draw (failed ones included), has as many
\* sizes as words in its record.
C18_RecordAndSizes ==
    (call.fn = "data" /\ call.pc = "result") =>
        Len(call.results[1].record) = Len(call.results[1].sizes)

\* C19: every TestResult that into_result produces has in written_indices
\* exactly the positions i with sizes[i] == 0, the words that write appended.
C19_WrittenIndices ==
    (call.fn = "data" /\ call.pc = "result") =>
        call.results[1].written_indices
            = {i \in 0..(Len(call.results[1].sizes) - 1) :
                  At(call.results[1].sizes, i) = 0}

\* C20: every draw of a TestResult that into_result produces has
\* start < end <= len(record).
C20_RetainedDraws ==
    (call.fn = "data" /\ call.pc = "result") =>
        \A i \in 1..Len(call.results[1].draws) :
            LET d == call.results[1].draws[i] IN
            d.start < d.end /\ d.end <= Len(call.results[1].record)

\* C20, witness: a source with an unclosed draw, a closed draw that consumed
\* no word and a closed draw over a word has become a result that retains
\* the last of them alone.
C20_Witness ==
    /\ call.fn = "data"
    /\ call.pc = "result"
    /\ call.started = 3
    /\ call.results[1].status = Invalid
    /\ Len(call.results[1].record) = 1
    /\ call.results[1].draws = <<[depth |-> 1, start |-> 0, end |-> 1]>>

\* C21: a result with status Valid or Interesting is delivered to the worker
\* only for a source all of whose draws are closed: mark_finished with such a
\* status on a source with an unclosed draw aborts and sends nothing.
C21_UnclosedDrawNeedsInvalid ==
    [][(Len(h2w') > Len(h2w)
            /\ h2w'[Len(h2w')].result.status.kind \in {"Valid", "Interesting"})
        => \A i \in 1..Len(hsource.draws) : hsource.draws[i].end # NoEnd]_vars

\* C21, witness: the host, holding a source of the Engine with an unclosed
\* draw, has panicked and the worker's RunThis is left without a result.
C21_Witness ==
    /\ hpc = "panicked"
    /\ hsource # NoSource
    /\ \E i \in 1..Len(hsource.draws) : hsource.draws[i].end = NoEnd
    /\ engine.state = "AwaitingCompletion"
    /\ wpc = "recv"
    /\ outstanding = 1
    /\ h2w = <<>>

\* C22: on a source recorded from a buffer of L words a call of bits or
\* write succeeds, and appends a word to record, exactly while record holds
\* fewer than L words; every later call returns Err(FailedDraw) and leaves
\* record alone, so record never grows past L words.
C22_RecordedSourceEnds ==
    [][(/\ call.fn = "data"
        /\ hsource.bitgenerator.kind = "Recorded"
        /\ call.pc = "open"
        /\ call'.pc = "open"
        /\ hsource'.draws = hsource.draws)
        => /\ Len(hsource'.record) <= Len(hsource.bitgenerator.v)
           /\ IF Len(hsource.record) < Len(hsource.bitgenerator.v)
              THEN call'.ret.ok /\ Len(hsource'.record) = Len(hsource.record) + 1
              ELSE ~call'.ret.ok /\ hsource'.record = hsource.record]_vars

\* C22, witness: on a source recorded from one word the first call succeeded
\* and two later calls, the last of them a bits, have failed.
C22_Witness ==
    /\ call.fn = "data"
    /\ call.pc = "open"
    /\ hsource.bitgenerator.kind = "Recorded"
    /\ Len(hsource.bitgenerator.v) = 1
    /\ Len(hsource.record) = 1
    /\ Len(hsource.sizes) = 3
    /\ ~call.ret.ok

\* C23: a successful bits(n) returns the next word of the generator (on a
\* recorded source the buffer word at index len(record)) reduced to its n low
\* bits, below 2^n for n < 64 and unchanged for n == 64, and appends that
\* value to record and n to sizes.
C23_BitsMasks ==
    [][(/\ call.fn = "data"
        /\ call.pc = "open"
        /\ Len(hsource'.record) = Len(hsource.record) + 1
        /\ hsource'.sizes[Len(hsource'.sizes)] # 0)
        => LET n == hsource'.sizes[Len(hsource'.sizes)]
               word == hsource.bitgenerator.v[Len(hsource.record) + 1]
               result == call'.ret.val
           IN /\ call'.ret.ok
              /\ hsource'.sizes = Append(hsource.sizes, n)
              /\ hsource'.record = Append(hsource.record, result)
              /\ n < WORD_BITS => result < 2 ^ n /\ result = word % (2 ^ n)
              /\ n = WORD_BITS => result = word]_vars

\* C23, witness: bits(1) on a recorded buffer whose first word is 2 has
\* returned 0 and recorded 0.
C23_Witness ==
    /\ call.fn = "data"
    /\ call.pc = "open"
    /\ hsource.bitgenerator = [kind |-> "Recorded", v |-> <<2>>]
    /\ hsource.record = <<0>>
    /\ hsource.sizes = <<1>>
    /\ call.ret = [ok |-> TRUE, val |-> 0]

\* C24: in the replay phase the source sent for a stored value v is the
\* recorded source of its decoded words, v is not listed again, and once the
\* result has come back v is in the database exactly if the result is
\* Interesting and the encoding of its record is v.
C24_ReplayDeletes ==
    [][/\ (wpc = "send" /\ lb.phase = "replay")
            => /\ wsource = from_vec(bytes_to_u64s(lb.v))
               /\ \A k \in 1..Len(lb.todo) :
                      /\ lb.todo[k] # lb.v
                      /\ \A m \in 1..Len(lb.todo) : lb.todo[m] = lb.todo[k] => m = k
       /\ (wpc = "recv" /\ lb.phase = "replay" /\ h2w # <<>> /\ h2w' # h2w)
            => LET result == Head(h2w).result IN
               (lb.v \in ml'.database.files)
                   <=> /\ result.status.kind = "Interesting"
                       /\ u64s_to_bytes(result.record) = lb.v]_vars

\* C24, witness: without a Shrink phase two stored values were replayed and
\* the worker has finished; one replay was Valid and its value is gone, the
\* other was Interesting with the record <<1>>, whose encoding is stored.
C24_Witness ==
    /\ wpc = "finished"
    /\ generated = 0
    /\ ml.valid_examples = 1
    /\ ml.interesting_examples = 1
    /\ DOMAIN ml.minimized_examples = {0}
    /\ ml.minimized_examples[0].record = <<1>>
    /\ ml.database.files = {u64s_to_bytes(<<1>>)}

\* C25: a random source is issued only while no result has been Interesting,
\* so a run whose replay produced an Interesting result issues none. A stored
\* value leaves the database only in the replay step that found its result
\* not Interesting or of another record, or when the best example whose
\* record it encodes is replaced by a strictly smaller result.
C25_ReplaySkipsGeneration ==
    [][/\ generated' > generated => ml'.interesting_examples = 0
       /\ \A v \in ml.database.files :
              v \notin ml'.database.files
                  => \/ /\ wpc = "recv" /\ lb.phase = "replay" /\ lb.v = v
                        /\ h2w # <<>>
                        /\ ~(/\ Head(h2w).result.status.kind = "Interesting"
                             /\ u64s_to_bytes(Head(h2w).result.record) = v)
                     \/ \E n \in DOMAIN ml.minimized_examples :
                            /\ u64s_to_bytes(ml.minimized_examples[n].record) = v
                            /\ TestResultLess(ml'.minimized_examples[n],
                                              ml.minimized_examples[n])]_vars

\* C25, witness: with a Shrink phase and one stored value, the encoding of
\* <<1>>, the replay was Interesting(0) with that record, the worker has
\* finished, nothing was generated and the value is still stored.
C25_Witness ==
    /\ wpc = "finished"
    /\ "Shrink" \in ml.phases
    /\ ml.max_examples = 1
    /\ generated = 0
    /\ DOMAIN ml.minimized_examples = {0}
    /\ ml.minimized_examples[0].record = <<1>>
    /\ ml.database.files = {u64s_to_bytes(<<1>>)}

\* C25 as stated: a stored value that reproduces is kept. In the replay
\* phase, a stored value that encodes the record of a best example, so that
\* a result of this run was Interesting with that record, is not deleted
\* while another value is replayed.
C25_Original ==
    [][(wpc = "recv" /\ lb.phase = "replay")
        => \A n \in DOMAIN ml.minimized_examples :
               LET v == u64s_to_bytes(ml.minimized_examples[n].record) IN
               (v \in ml.database.files /\ v # lb.v) => v \in ml'.database.files]_vars

\* C26: the value that the bookkeeping of an Interesting(n) result adds to
\* the database is the encoding of the record of minimized_examples[n] as it
\* is after the update.
C26_SavesCurrentBest ==
    [][(/\ wpc = "recv"
        /\ h2w # <<>>
        /\ h2w' # h2w
        /\ Head(h2w).result.status.kind = "Interesting")
        => \A v \in ml'.database.files \ ml.database.files :
               v = u64s_to_bytes(
                       ml'.minimized_examples[Head(h2w).result.status.label].record)]_vars

\* C27: decoding the encoding of a record gives the record back; the encoding
\* holds, word after word, the 8 bytes of the word with the most significant
\* first; and the first b bytes of it decode to the first b div 8 words.
C27_EncodingRoundTrip ==
    (call.fn = "codec" /\ call.pc = "done") =>
        /\ call.decoded = call.record
        /\ Len(call.encoded) = 8 * Len(call.record)
        /\ \A k \in 1..Len(call.encoded) : call.encoded[k] \in 0..255
        /\ \A i \in 1..Len(call.record) :
               LET byte(k) == call.encoded[8 * (i - 1) + k] IN
               call.record[i]
                   = byte(8) + 256 * (byte(7) + 256 * (byte(6) + 256 * (byte(5)
                       + 256 * (byte(4) + 256 * (byte(3) + 256 * (byte(2)
                       + 256 * byte(1)))))))
        /\ call.words = SubSeq(call.record, 1, call.cut \div 8)

\* C27, witness: the record <<256, 1>> is encoded with the byte 1 in seventh
\* place, and the first 15 bytes of its encoding decode to <<256>>.
C27_Witness ==
    /\ call.fn = "codec"
    /\ call.pc = "done"
    /\ call.record = <<256, 1>>
    /\ call.cut = 15
    /\ call.encoded[7] = 1
    /\ call.words = <<256>>
    /\ call.decoded = <<256, 1>>

\* C28: was_unsatisfiable is false until Finished has been received; from then
\* on it is true exactly when the worker has counted no Valid and no
\* Interesting result. The worker counts every result it receives: a Valid
\* one adds one to valid_examples, an Interesting one adds one to
\* interesting_examples, an Invalid or Overflow one changes neither, and no
\* other step changes the two counters.
C28_WasUnsatisfiable ==
    /\ [](was_unsatisfiable <=> (/\ has_shutdown
                                 /\ ml.valid_examples = 0
                                 /\ ml.interesting_examples = 0))
    /\ [][LET got(kind) == IF /\ wpc = "recv" /\ h2w # <<>> /\ h2w' # h2w
                                /\ Head(h2w).result.status.kind = kind
                             THEN 1 ELSE 0 IN
           /\ ml'.valid_examples = ml.valid_examples + got("Valid")
           /\ ml'.interesting_examples = ml.interesting_examples + got("Interesting")]_vars

\* C28, witness: Finished has been received after a run in which the host
\* reported an Invalid result and nothing Valid or Interesting, and
\* was_unsatisfiable returns true.
C28_Witness ==
    /\ has_shutdown
    /\ was_unsatisfiable
    /\ ml.invalid_examples > 0
    /\ generated > 0

\* C29: the labels of minimized_examples are the labels of the Interesting
\* results the worker has received: the map starts empty, receiving
\* Interesting(n) adds n, and no other step changes the labels. Before
\* Finished is received list_minimized_examples returns the empty list; after
\* it, the list has one entry per label of the worker's map, the entry of
\* label n being minimized_examples[n] with status Interesting(n), and no
\* entry is smaller in the shortlex order than an entry before it.
C29_ListMinimizedExamples ==
    /\ [](IF has_shutdown
          THEN \A l \in list_minimized_examples :
                   /\ Len(l) = Cardinality(DOMAIN ml.minimized_examples)
                   /\ \A n \in DOMAIN ml.minimized_examples :
                          /\ ml.minimized_examples[n].status = Interesting(n)
                          /\ \E k \in 1..Len(l) : l[k] = ml.minimized_examples[n]
                   /\ \A a, b \in 1..Len(l) :
                          a < b => /\ l[a].status.label # l[b].status.label
                                   /\ ~TestResultLess(l[b], l[a])
          ELSE list_minimized_examples = {<<>>})
    /\ [][DOMAIN ml'.minimized_examples
             = DOMAIN ml.minimized_examples
               \cup IF /\ wpc = "recv" /\ h2w # <<>> /\ h2w' # h2w
                       /\ Head(h2w).result.status.kind = "Interesting"
                    THEN {Head(h2w).result.status.label}
                    ELSE {}]_vars

\* C29, witness: Finished has been received after Interesting results of
\* both labels and an Invalid one, and the list is the empty record of
\* label 1 followed by the record [1] of label 0.
C29_Witness ==
    /\ has_shutdown
    /\ ml.invalid_examples > 0
    /\ \E l \in list_minimized_examples :
           /\ Len(l) = 2
           /\ l[1].status = Interesting(1) /\ l[1].record = <<>>
           /\ l[2].status = Interesting(0) /\ l[2].record = <<1>>

\* C30: while the phases do not contain Shrink, no Shrinker runs and every
\* source the worker is about to send is a stored value under replay or a
\* random source issued while no result has been Interesting. The step that
\* receives the last result of the replay after an Interesting one, or an
\* Interesting result of the generation phase, returns from loop_body with
\* Complete; the generation phase that ends on its caps returns MaxExamples;
\* and the step after the return sends Finished to a host that is there.
\* Receiving an Interesting(n) result leaves minimized_examples[n] at the
\* smaller of the result and the entry before (the result if there was none).
C30_NoShrinkPhase ==
    []["Shrink" \notin ml.phases =>
        LET recv == wpc = "recv" /\ h2w # <<>> /\ h2w' # h2w
            result == Head(h2w).result
            n == result.status.label IN
        /\ ~sh'.active
        /\ (wpc # "send" /\ wpc' = "send") =>
               /\ lb'.phase \in {"replay", "generate"}
               /\ lb'.phase = "replay" => wsource' = from_vec(bytes_to_u64s(lb'.v))
               /\ lb'.phase = "generate" =>
                      /\ ml'.interesting_examples = 0
                      /\ wsource'.bitgenerator.kind = "Random"
                      /\ wsource'.record = <<>>
                      /\ generated' = generated + 1
        /\ (recv /\ lb.phase = "replay" /\ lb.todo = <<>>
                 /\ ml'.interesting_examples > 0)
               => (wpc' = "exit" /\ wreason' = "Complete")
        /\ (recv /\ lb.phase = "generate")
               => IF result.status.kind = "Interesting"
                  THEN wpc' = "exit" /\ wreason' = "Complete"
                  ELSE wpc' \in {"send", "unfollowed"}
                       \/ (wpc' = "exit" /\ wreason' = "MaxExamples")
        /\ (wpc = "exit" /\ wpc' # "exit" /\ wreason # "Shutdown" /\ ~HostGone)
               => (Sent("Finished") /\ w2h'[Len(w2h')].final[1] = ml)
        /\ (recv /\ result.status.kind = "Interesting")
               => ml'.minimized_examples[n]
                    = IF /\ n \in DOMAIN ml.minimized_examples
                         /\ ~TestResultLess(result, ml.minimized_examples[n])
                      THEN ml.minimized_examples[n]
                      ELSE result]_vars

\* C30, witness: without the Shrink phase the replay of two stored values
\* gave two Interesting(0) results, no random source was issued, Finished
\* with Complete has been received and the example of label 0 is the smaller
\* record [0].
C30_Witness ==
    /\ "Shrink" \notin ml.phases
    /\ has_shutdown
    /\ engine.loop_response[1].reason = "Complete"
    /\ generated = 0
    /\ ml.interesting_examples = 2
    /\ DOMAIN ml.minimized_examples = {0}
    /\ ml.minimized_examples[0].record = <<0>>
    /\ list_minimized_examples = {<<ml.minimized_examples[0]>>}

\* C31 (as amended): for the test draw_three run with the Shrink phase, once
\* next_source has returned None after an Interesting result, the list of
\* minimized examples is the one result of label 0 whose record is [0, 0, 1],
\* read with 64 bits each inside the one draw from 0 to 3.
C31_DrawThreeMinimized ==
    (test = "draw_three" /\ has_shutdown /\ returned = "None"
     /\ "Shrink" \in Final.phases /\ Final.interesting_examples > 0) =>
        \A l \in list_minimized_examples :
            /\ Len(l) = 1
            /\ l[1].status = Interesting(0)
            /\ l[1].record = <<0, 0, 1>>
            /\ l[1].sizes = <<64, 64, 64>>
            /\ l[1].draws = <<[depth |-> 0, start |-> 0, end |-> 3]>>

\* C31, witness: the run has ended after at least two successful shrinks, and
\* the minimized record is [0, 0, 1].
C31_Witness ==
    /\ test = "draw_three"
    /\ has_shutdown
    /\ returned = "None"
    /\ "Shrink" \in Final.phases
    /\ Final.interesting_examples >= 3
    /\ \E l \in list_minimized_examples : l[1].record = <<0, 0, 1>>

\* C31 as stated: the minimized example of label 0 has the record [1].
C31_Original ==
    (test = "draw_three" /\ has_shutdown /\ returned = "None"
     /\ "Shrink" \in Final.phases /\ Final.interesting_examples > 0) =>
        \A l \in list_minimized_examples : Len(l) = 1 /\ l[1].record = <<1>>

\* C32: after any sequence of save and delete operations on a directory
\* database, fetch returns exactly the values saved and not deleted since.
C32_DirectoryDatabase ==
    call.fn = "db" => db_fetch(call.db) = call.live

\* C33: the target of a running Shrinker has the status Interesting(label).
\* The step that receives the result R of a candidate while the Shrinker of
\* label L has the target T leaves a Shrinker of label L with the target R if
\* R has the status Interesting(L) and is smaller than T in the shortlex
\* order, and with the target T otherwise; no other step changes the
\* Shrinker. So the target of label L never grows.
C33_TargetReplaced ==
    /\ [](sh.active => sh.shrink_target.status = Interesting(sh.label))
    /\ [][IF wpc = "recv" /\ h2w # <<>> /\ h2w' # h2w
           THEN (sh.active /\ sh'.active /\ sh'.label = sh.label)
                    => sh'.shrink_target
                         = IF /\ Head(h2w).result.status = Interesting(sh.label)
                              /\ TestResultLess(Head(h2w).result, sh.shrink_target)
                           THEN Head(h2w).result
                           ELSE sh.shrink_target
           ELSE sh'.active => (/\ sh'.shrink_target = sh.shrink_target
                               /\ sh'.label = sh.label
                               /\ sh'.changes = sh.changes)]_vars

\* C33, witness: in the even/odd test the Shrinker of label 1 has replaced
\* its target twice and has since received an Interesting result of label 0,
\* which it did not take.
C33_Witness ==
    /\ test = "even_odd"
    /\ sh.active
    /\ sh.label = 1
    /\ sh.changes = 2
    /\ sh.shrink_target.status = Interesting(1)
    /\ 0 \in DOMAIN ml.minimized_examples
    /\ TestResultLess(ml.minimized_examples[0], sh.shrink_target)

\* C34: in the history of a Shrinker run every round starts with the three
\* cheap passes in order; reorder_blocks is entered for the first time at the
\* end of a round whose cheap passes left the change counter where it was,
\* and from then on every round goes on with the three expensive passes in
\* order (the flag is set exactly from that point); and the run returns only
\* after a round of all six passes that left the change counter where it was.
C34_FixpointDriver ==
    \A log \in {sh.log, sh.returned} :
    LET n == Len(log)
        at(k, pass) == k \in 1..n /\ log[k].pass = pass
        first == {k \in 1..n : log[k].pass = "reorder_blocks"
                               /\ \A j \in 1..(k - 1) : log[j].pass # "reorder_blocks"} IN
    /\ n > 0 => log[1].pass = "adaptive_delete"
    /\ \A k \in 1..n :
           /\ at(k, "adaptive_delete") /\ k < n => at(k + 1, "minimize_individual_blocks")
           /\ at(k, "minimize_individual_blocks") =>
                  (at(k - 1, "adaptive_delete")
                   /\ (k < n => at(k + 1, "minimize_duplicated_blocks")))
           /\ at(k, "minimize_duplicated_blocks") =>
                  (at(k - 1, "minimize_individual_blocks")
                   /\ (k < n => IF \E j \in first : j <= k + 1
                                THEN at(k + 1, "reorder_blocks")
                                ELSE at(k + 1, "adaptive_delete")
                                     /\ log[k + 1].changes > log[k - 2].changes))
           /\ at(k, "reorder_blocks") =>
                  (at(k - 1, "minimize_duplicated_blocks")
                   /\ (k < n => at(k + 1, "lower_and_delete")))
           /\ at(k, "lower_and_delete") =>
                  (at(k - 1, "reorder_blocks") /\ (k < n => at(k + 1, "delete_all_ranges")))
           /\ at(k, "delete_all_ranges") =>
                  (at(k - 1, "lower_and_delete")
                   /\ (k < n => IF log[k + 1].changes = log[k - 5].changes
                                THEN at(k + 1, "return")
                                ELSE at(k + 1, "adaptive_delete")))
           /\ at(k, "return") =>
                  (/\ k = n
                   /\ log = sh.returned
                   /\ at(k - 1, "delete_all_ranges")
                   /\ at(k - 6, "adaptive_delete")
                   /\ \A j \in (k - 6)..k : log[j].changes = log[k].changes)
    /\ \A k \in first : k >= 4 /\ log[k].changes = log[k - 3].changes
    /\ (sh.active /\ log = sh.log) => (sh.expensive_passes_enabled <=> first # {})
    /\ (log = sh.returned /\ n > 0) => at(n, "return")

\* C34, witness: a Shrinker run has returned after a round of the three cheap
\* passes alone, a round of six passes in which an expensive pass made a
\* change, and a last round of six passes without a change.
C34_Witness ==
    /\ Len(sh.returned) = 16
    /\ sh.returned[4].pass = "adaptive_delete"
    /\ sh.returned[7].pass = "reorder_blocks"
    /\ sh.returned[16].pass = "return"
    /\ sh.returned[16].changes > sh.returned[7].changes

\* C35: fully_minimized is a subset of the labels of minimized_examples; each
\* of its labels is the label of the running Shrinker or has had a Shrinker
\* run that returned with the target equal to the label's present entry
\* (unless loop_body was left with Shutdown, which ends a run half way);
\* and after Finished with Complete in a run with the Shrink phase the two
\* sets are equal.
C35_FullyMinimized ==
    /\ ml.fully_minimized \subseteq DOMAIN ml.minimized_examples
    /\ \A n \in ml.fully_minimized :
           \/ wreason = "Shutdown"
           \/ sh.active /\ sh.label = n
           \/ n \in DOMAIN sh.shrunk /\ sh.shrunk[n] = ml.minimized_examples[n]
    /\ (wpc = "finished" /\ wreason = "Complete" /\ "Shrink" \in ml.phases)
           => ml.fully_minimized = DOMAIN ml.minimized_examples

\* C35, witness: Finished with Complete after the Shrink phase, with two
\* labels, the second of which was first seen while the first was shrunk.
C35_Witness ==
    /\ wpc = "finished"
    /\ wreason = "Complete"
    /\ "Shrink" \in ml.phases
    /\ generated = 1
    /\ ml.fully_minimized = {0, 1}
    /\ DOMAIN sh.shrunk = {0, 1}

\* C36: the bookkeeping of a received result. A result that is not
\* Interesting leaves the map, fully_minimized and the database as they are.
\* An Interesting(n) result leaves the entries of the other labels as they
\* are; without an entry for n it becomes the entry; smaller than the entry
\* it replaces it, n leaves fully_minimized and the encoding of the old
\* record leaves the database; not smaller, it leaves the entry and
\* fully_minimized as they are. What the worker does after the bookkeeping up
\* to its next execute leaves the map as it is, marks labels and deletes
\* values at most.
C36_Bookkeeping ==
    [][(wpc = "recv" /\ h2w # <<>> /\ h2w' # h2w) =>
        LET result == Head(h2w).result
            n == result.status.label
            old == ml.minimized_examples
            e == MainGenerationLoop_execute(ml, result) IN
        /\ ml'.minimized_examples = e.minimized_examples
        /\ e.fully_minimized \subseteq ml'.fully_minimized
        /\ ml'.database.files \subseteq e.database.files
        /\ IF result.status.kind # "Interesting"
           THEN /\ e.minimized_examples = old
                /\ e.fully_minimized = ml.fully_minimized
                /\ e.database = ml.database
           ELSE /\ DOMAIN e.minimized_examples = DOMAIN old \cup {n}
                /\ \A m \in DOMAIN old \ {n} : e.minimized_examples[m] = old[m]
                /\ IF n \notin DOMAIN old
                   THEN /\ e.minimized_examples[n] = result
                        /\ e.fully_minimized = ml.fully_minimized
                   ELSE IF TestResultLess(result, old[n])
                   THEN /\ e.minimized_examples[n] = result
                        /\ e.fully_minimized = ml.fully_minimized \ {n}
                        /\ u64s_to_bytes(old[n].record) \notin e.database.files
                   ELSE /\ e.minimized_examples[n] = old[n]
                        /\ e.fully_minimized = ml.fully_minimized]_vars

\* C36, witness: the one random source gave Interesting(0) with the record
\* [1], a shrink candidate gave Interesting(0) with the record [0], and the
\* database holds the encoding of [0] and no longer that of [1].
C36_Witness ==
    /\ generated = 1
    /\ ml.interesting_examples = 2
    /\ DOMAIN ml.minimized_examples = {0}
    /\ ml.minimized_examples[0].record = <<0>>
    /\ ml.database.files = {u64s_to_bytes(<<0>>)}
    /\ lb.phase = "shrink"

\* C37: the value-only passes leave written positions alone: while
\* minimize_individual_blocks has minimize_integer running on the index i,
\* the word at i of the shrink target was not written (its size is not 0),
\* and no group of minimize_duplicated_blocks holds the index of a written
\* word.
C37_WrittenUntouched ==
    sh.active =>
        LET sizes == sh.shrink_target.sizes
            written(i) == i < Len(sizes) /\ At(sizes, i) = 0 IN
        /\ sh.loc.crit = "try_lowering_value" => ~written(sh.loc.i)
        /\ \A g \in {sh.loc.group} \cup {sh.loc.targets[q] : q \in 1..Len(sh.loc.targets)} :
               \A q \in 1..Len(g) : ~written(g[q])

\* C38: the assertion in the exponential probe of adaptive_delete holds: the
\* worker never panics on it, and while the probe runs, the last hi whose
\* deletion succeeded is at most the number of draws of the pass's target.
C38_ProbeAssertion ==
    /\ ~(wpc = "panic" /\ wmsg = "assertion failed: hi <= target.draws.len()")
    /\ (sh.active /\ sh.pass = "adaptive_delete" /\ sh.loc.site = "ad_hi" /\ sh.loc.hi > 5)
           => sh.loc.hi \div 2 <= Len(sh.loc.target.draws)

\* C39: the assertion of minimize_integer after its shift and bit-clear
\* steps holds under the criteria of the Shrinker: the worker never panics
\* on it, and the best of a minimize_integer call in its bit-clear step is
\* at least SMALL.
C39_BestStaysLarge ==
    /\ ~(wpc = "panic" /\ wmsg = "assertion failed: minimizer.best >= SMALL")
    /\ (sh.active /\ mi.pc = "flip") => mi.best >= SMALL

\* C40: with a directory database and a deterministic test, the
\* MainGenerationLoop of every Finished message the worker sends has, for
\* every label of minimized_examples, the encoding of the record of the
\* label's example among the values of its database.
C40_BestIsStored ==
    \A q \in 1..Len(w2h) :
        w2h[q].kind = "Finished" =>
            LET main_loop == w2h[q].final[1] IN
            \A n \in DOMAIN main_loop.minimized_examples :
                u64s_to_bytes(main_loop.minimized_examples[n].record)
                    \in db_fetch(main_loop.database)

\* C40, witness: even_odd with the stored records [3] and [102]: the replay
\* deleted the value of [3], the shrinker came from [102] to [100] and the
\* bookkeeping deleted the value of [102]; Finished is sent and the database
\* holds the value of [100].
C40_Witness ==
    /\ test = "even_odd"
    /\ w2h # <<>>
    /\ w2h[Len(w2h)].kind = "Finished"
    /\ generated = 0
    /\ DOMAIN ml.minimized_examples = {0}
    /\ ml.minimized_examples[0].record = <<100>>
    /\ u64s_to_bytes(<<100>>) \in db_fetch(ml.database)
    /\ u64s_to_bytes(<<102>>) \notin db_fetch(ml.database)
    /\ u64s_to_bytes(<<3>>) \notin db_fetch(ml.database)

====
